---- MODULE Spec2Model ----
(***************************************************************************)
(* Model of the Optimism block executor (OpBlockExecutor) of               *)
(* crates/op-evm/src/block/mod.rs: the per-block accounting state          *)
(* (gas_used, da_footprint_used, receipts), the layered cache it commits   *)
(* to, and the calls execute_transaction_without_commit,                   *)
(* commit_transaction and finish.  The interpreter (evm.transact), the     *)
(* backing database and the caller are the environment: their answers are  *)
(* drawn from small sets.                                                   *)
(***************************************************************************)
EXTENDS Integers, Sequences, FiniteSets, TLC

\* ---------------------------------------------------------------- bounds

\* u64 is modelled as an unsigned integer of U64Bits bits.
U64Bits == 24
\* Largest gas limit of a transaction offered to the executor.
MaxTxGas == 2
\* Largest block gas limit.
MaxBlockGas == 2
\* Number of transactions a caller commits to one executor at most.
MaxTxs == 2
\* Largest compressed-size estimate of a transaction, in size units.
MaxSizeUnits == 1
\* Largest low byte of the DA footprint gas scalar stored in the L1 block slot.
MaxScalarLo == 1
\* Largest timestamp, block number and activation point of a fork.
MaxPoint == 1
\* Largest number of forks a rule set activates when it activates only a few.
MaxActivated == 2
\* Largest fee of a transaction request and largest base fee of a block.
MaxFee == 2

\* ------------------------------------------------------- program constants

\* Divisor of the compressed-size estimate (mod.rs line 170).
SizeUnit == 1000000
\* Byte offset of the scalar inside the 32-byte big-endian slot value.
DA_FOOTPRINT_GAS_SCALAR_OFFSET == 0
\* Width in bytes of a storage slot value (to_be_bytes::<32>).
SlotBytes == 32
\* Value of deposit_receipt_version for post-Canyon deposits.
DepositReceiptVersion == 1

\* ------------------------------------------------------------- arithmetic

U64Mod == 2 ^ U64Bits
U64Max == U64Mod - 1

\* a - b on u64 when the build does not check overflow (wraps around).
WrappingSub(a, b) == (a - b + U64Mod) % U64Mod
\* a + b on u64 when the build does not check overflow (wraps around).
WrappingAdd(a, b) == (a + b) % U64Mod
\* u64::saturating_add
SaturatingAdd(a, b) == IF a + b > U64Max THEN U64Max ELSE a + b
\* u64::saturating_mul
SaturatingMul(a, b) == IF a * b > U64Max THEN U64Max ELSE a * b
\* u64::saturating_div (unsigned division cannot overflow: plain floor division)
SaturatingDiv(a, b) == a \div b

\* Option<T> is a sequence of length at most one.
None == <<>>
Some(x) == <<x>>

\* ------------------------------------------------------------------ forks

\* The OP forks the executor distinguishes, oldest first.  The forks between
\* Canyon and Jovian change nothing the executor reads and are folded into
\* CANYON.
Forks == <<"BEDROCK", "REGOLITH", "CANYON", "JOVIAN">>
ForkNames == {Forks[i] : i \in 1..Len(Forks)}
Rank(f) == CHOOSE i \in 1..Len(Forks) : Forks[i] = f

VARIABLES
    overflow_checks,    \* build profile, known once an overflow has shown it:
                        \* "undetermined", "panics" or "wraps"
    fork,               \* newest fork active at the block's timestamp (spec + evm.block())
    block_gas_limit,    \* evm.block().gas_limit
    database,           \* backing store: the scalar bytes of the L1 block contract's slot
                        \* and the number of writes made to the store
    cache,              \* the State cache in front of the database
    receipts,           \* self.receipts
    gas_used,           \* self.gas_used
    da_footprint_used,  \* self.da_footprint_used
    pending,            \* what execute returned and the caller has not committed yet
    alive,              \* "live", or why the executor is gone
    reported,           \* history: the type and reported gas of each transaction
                        \* committed successfully
    ret,                \* what the last call did and returned
    call                \* the last call of a function outside the executor: its
                        \* arguments and what it returned

vars == <<overflow_checks, fork, block_gas_limit, database, cache, receipts,
          gas_used, da_footprint_used, pending, alive, reported, ret, call>>

\* The executor's part of the state.
executor == <<overflow_checks, fork, block_gas_limit, database, cache, receipts,
              gas_used, da_footprint_used, pending, alive, reported, ret>>

\* No function outside the executor has been called.
NoCall == [fn |-> "none"]

\* self.is_regolith, computed in new() (line 93)
is_regolith == Rank(fork) >= Rank("REGOLITH")
\* self.spec.is_canyon_active_at_timestamp(block.timestamp) (line 319)
is_canyon_active == Rank(fork) >= Rank("CANYON")
\* self.spec.is_jovian_active_at_timestamp(block.timestamp) (lines 230, 284)
is_jovian_active == Rank(fork) >= Rank("JOVIAN")

\* ----------------------------------------------------------------- inputs

\* A transaction as the admission checks see it: its type and its gas limit.
Txs == [is_deposit : BOOLEAN, gas_limit : 1..MaxTxGas]

\* What estimate_tx_compressed_size can return for a transaction's bytes:
\* every whole number of size units up to the bound, and that plus half a unit.
EncodedSizes ==
    UNION {{k * SizeUnit, k * SizeUnit + (SizeUnit \div 2)} : k \in 0..MaxSizeUnits}

\* What the interpreter can report for tx when it does not fail: a success
\* that emitted a log or a revert (which emits none), using at most the
\* transaction's gas limit.
EvmResults(tx) ==
    {[gas_used |-> g, is_success |-> ok, logs |-> IF ok THEN <<"log">> ELSE <<>>] :
        g \in 0..tx.gas_limit, ok \in BOOLEAN}

\* The scalars the L1 block slot can hold, as <<high byte, low byte>>.
ScalarBytes == {<<0, lo>> : lo \in 0..MaxScalarLo} \cup {<<1, 0>>}

\* The scalars the slot can hold when the executor is created for a block of
\* fork f.  Before Jovian no call reads the slot, so one value stands for all.
InitialScalarBytes(f) ==
    IF f = "JOVIAN" THEN ScalarBytes ELSE {<<0, MaxScalarLo>>}

\* The build profiles a call can run under: the one already shown, else
\* either one if the call overflows (the overflow shows which).
Profiles(overflows) ==
    IF overflow_checks # "undetermined" THEN {overflow_checks}
    ELSE IF overflows THEN {"panics", "wraps"}
    ELSE {"undetermined"}

\* The answers of a fallible store access: it can fault only when it is made.
Faults(made) == IF made THEN BOOLEAN ELSE {FALSE}

\* database.storage(L1_BLOCK_CONTRACT, DA_FOOTPRINT_GAS_SCALAR_SLOT) as 32
\* big-endian bytes.  The database keeps the slot's two scalar bytes; every
\* other byte of the slot is zero, as prepare_jovian_db writes it.
Storage(db) ==
    [i \in 1..SlotBytes |->
        IF i = DA_FOOTPRINT_GAS_SCALAR_OFFSET + 1 THEN db.scalar_bytes[1]
        ELSE IF i = DA_FOOTPRINT_GAS_SCALAR_OFFSET + 2 THEN db.scalar_bytes[2]
        ELSE 0]

\* ---------------------------------------------------------- DA footprint

\* get_jovian_da_footprint_scalar: the two bytes at the offset, big endian.
ScalarOfSlot(slot) ==
    256 * slot[DA_FOOTPRINT_GAS_SCALAR_OFFSET + 1] + slot[DA_FOOTPRINT_GAS_SCALAR_OFFSET + 2]

\* Faulty variant of DaFootprintEstimation: the size is rounded up to whole
\* size units.
DaFootprintEstimation_RoundsUp(encoded, scalar) ==
    SaturatingMul(SaturatingDiv(encoded + SizeUnit - 1, SizeUnit), scalar)

\* jovian_da_footprint_estimation, given the compressed-size estimate and the scalar.
DaFootprintEstimation(encoded, scalar) ==
    SaturatingMul(SaturatingDiv(encoded, SizeUnit), scalar)

\* ------------------------------------------------------------ call records

\* The record of a call: what it returned and what it did on the way.
\*   kind          "ok", the error returned, or "panic"
\*   gas           the u64 commit_transaction returns
\*   err           the two fields an admission error carries, or the hash an
\*                 interpreter error carries
\*   result        the BlockExecutionResult finish returns
\*   transacted    whether evm.transact was invoked
\*   scalar_reads  how often the scalar slot was read from the database
\*   account_loads how often load_cache_account was called
\*   hooks         the notifications made on system_caller, in order
\*   steps         the steps apply_pre_execution_changes ran, in order
\*   state_clear_flag  the flag it passed to set_state_clear_flag
\*   est           the last footprint estimation: <<encoded, scalar, footprint>>
\*   tx, encoded   the transaction of an execute call and the size estimate of
\*                 its bytes (0 when its footprint is not tracked)
BaseRet(op) ==
    [op |-> op, kind |-> "ok", tx |-> None, encoded |-> 0, gas |-> 0, err |-> None,
     result |-> None,
     transacted |-> FALSE, scalar_reads |-> 0, account_loads |-> 0, hooks |-> <<>>,
     steps |-> <<>>, spurious_dragon |-> None, state_clear_flag |-> None, est |-> None]

\* ------------------------------------------------------------------- new

\* OpBlockExecutor::new: empty receipts, both counters zero.  The block
\* environment, the chain spec and the database are the caller's.
Init ==
    /\ overflow_checks = "undetermined"
    /\ fork \in ForkNames
    /\ block_gas_limit \in {MaxBlockGas - 1, MaxBlockGas}
    /\ \E b \in InitialScalarBytes(fork) : database = [scalar_bytes |-> b, writes |-> 0]
    /\ cache = [commits |-> 0, nonce |-> 0, increments |-> 0, system_calls |-> 0]
    /\ receipts = <<>>
    /\ gas_used = 0
    /\ da_footprint_used = 0
    /\ pending = None
    /\ alive = "live"
    /\ reported = <<>>
    /\ ret = BaseRet("new")
    /\ call = NoCall

\* ---------------------------------------------- apply_pre_execution_changes

\* The steps of apply_pre_execution_changes in the order of lines 191-208;
\* all but the first can fail.
PreExecutionSteps ==
    <<"set_state_clear_flag", "apply_blockhashes_contract_call",
      "apply_beacon_root_contract_call", "ensure_create2_deployer">>

\* The number of system calls among the first n steps (lines 195-197).
SystemCallsAmong(n) == IF n >= 3 THEN 2 ELSE IF n = 2 THEN 1 ELSE 0

\* Faulty variant of PreExecutionOutcome: a failing step is reported but the
\* steps after it run all the same.
PreExecutionOutcome_RunsOn(spurious_dragon, failing) ==
    LET ran == Len(PreExecutionSteps)
        base == [BaseRet("pre") EXCEPT !.steps = SubSeq(PreExecutionSteps, 1, ran),
                                       !.spurious_dragon = Some(spurious_dragon),
                                       !.state_clear_flag = Some(spurious_dragon)]
        done == IF SystemCallsAmong(ran) > cache.system_calls
                THEN SystemCallsAmong(ran) ELSE cache.system_calls
    IN  [cache |-> [cache EXCEPT !.system_calls = done],
         ret |-> IF failing = 0 THEN base
                 ELSE [base EXCEPT !.kind = PreExecutionSteps[failing]],
         alive |-> IF failing = 0 THEN "live" ELSE "aborted"]

\* What apply_pre_execution_changes does, given the chain spec's answer to
\* is_spurious_dragon_active_at_block and the step that fails (0: none).  The
\* steps before the failing one have acted on the cache; the system calls
\* write the same slots whenever they are repeated for the block.
PreExecutionOutcome(spurious_dragon, failing) ==
    LET ran == IF failing = 0 THEN Len(PreExecutionSteps) ELSE failing - 1
        base == [BaseRet("pre") EXCEPT !.steps = SubSeq(PreExecutionSteps, 1, ran),
                                       !.spurious_dragon = Some(spurious_dragon),
                                       !.state_clear_flag = Some(spurious_dragon)]
        done == IF SystemCallsAmong(ran) > cache.system_calls
                THEN SystemCallsAmong(ran) ELSE cache.system_calls
    IN  [cache |-> [cache EXCEPT !.system_calls = done],
         ret |-> IF failing = 0 THEN base
                 ELSE [base EXCEPT !.kind = PreExecutionSteps[failing]],
         alive |-> IF failing = 0 THEN "live" ELSE "aborted"]

\* apply_pre_execution_changes().  Nothing in the executor records that it
\* ran, and nothing keeps the caller from calling it again or late.
ApplyPreExecutionChanges ==
    /\ alive = "live"
    /\ ret.op # "execute"
    /\ \E spurious_dragon \in BOOLEAN,
          failing \in {0} \cup 2..Len(PreExecutionSteps) :
          LET o == PreExecutionOutcome(spurious_dragon, failing)
          IN  /\ cache' = o.cache
              /\ ret' = o.ret
              /\ alive' = o.alive
    /\ pending' = None
    /\ UNCHANGED <<overflow_checks, fork, block_gas_limit, database, receipts,
                   gas_used, da_footprint_used, reported, call>>

\* ------------------------------------- execute_transaction_without_commit

\* Faulty variant of GasCheckRejects: the gas limit is compared with the whole
\* block gas limit, not with what is left of it.
GasCheckRejects_IgnoresUsed(tx) ==
    /\ tx.gas_limit > block_gas_limit
    /\ (is_regolith \/ ~tx.is_deposit)

\* The block-gas check of lines 221-222 rejects tx.
GasCheckRejects(tx) ==
    /\ tx.gas_limit > WrappingSub(block_gas_limit, gas_used)
    /\ (is_regolith \/ ~tx.is_deposit)

\* Faulty variant of TracksDaFootprint: the footprint is tracked on every fork.
TracksDaFootprint_BeforeJovian(tx) == ~tx.is_deposit

\* Faulty variant of TracksDaFootprint: deposits are tracked too.
TracksDaFootprint_Deposits(tx) == is_jovian_active

\* Whether the DA footprint is tracked for tx (lines 230-231, 284-285).
TracksDaFootprint(tx) == is_jovian_active /\ ~tx.is_deposit

\* Faulty variant of DaCheckRejects: off by one.
DaCheckRejects_OffByOne(tx_da_footprint, da_footprint_available) ==
    tx_da_footprint > da_footprint_available + 1

\* Faulty variant of DaCheckRejects: the footprint is compared with the whole
\* budget, not with what is left of it.
DaCheckRejects_IgnoresUsed(tx_da_footprint, da_footprint_available) ==
    tx_da_footprint > block_gas_limit

\* The DA footprint check of line 237.
DaCheckRejects(tx_da_footprint, da_footprint_available) ==
    tx_da_footprint > da_footprint_available

\* Whether a subtraction of execute_transaction_without_commit overflows for
\* tx: line 221 always runs, line 233 after the gas check has passed.
ExecuteOverflows(tx) ==
    \/ gas_used > block_gas_limit
    \/ /\ ~GasCheckRejects(tx)
       /\ TracksDaFootprint(tx)
       /\ da_footprint_used > block_gas_limit

\* tx.tx().trie_hash(): the hash identifies the transaction.
TrieHash(tx) == <<"hash", tx.is_deposit, tx.gas_limit>>

\* Faulty variant of TransactFailed: an interpreter error ends the block build.
TransactFailed_Aborts(r, tx) ==
    [ret |-> [r EXCEPT !.kind = "Evm", !.transacted = TRUE, !.err = Some(TrieHash(tx))],
     pending |-> None, alive |-> "aborted"]

\* evm.transact returning Err (lines 248-251): the error is returned with the
\* transaction's hash; r is the call record so far.
TransactFailed(r, tx) ==
    [ret |-> [r EXCEPT !.kind = "Evm", !.transacted = TRUE, !.err = Some(TrieHash(tx))],
     pending |-> None, alive |-> "live"]

\* Faulty variant of ExecuteOutcome: the DA footprint check comes before the
\* block-gas check.
ExecuteOutcome_DaCheckFirst(tx, encoded, fault, evm_err, res, checks) ==
    LET block_available_gas == WrappingSub(block_gas_limit, gas_used)
        da_footprint_available == WrappingSub(block_gas_limit, da_footprint_used)
        scalar == ScalarOfSlot(Storage(database))
        tx_da_footprint == DaFootprintEstimation(encoded, scalar)
        base == [BaseRet("execute") EXCEPT !.tx = Some(tx), !.encoded = encoded]
        read == [base EXCEPT !.scalar_reads = 1]
        est == [read EXCEPT !.est = Some(<<encoded, scalar, tx_da_footprint>>)]
        gas_checked(r, fp) ==
            IF GasCheckRejects(tx)
            THEN [ret |-> [r EXCEPT
                              !.kind = "TransactionGasLimitMoreThanAvailableBlockGas",
                              !.err = Some(<<tx.gas_limit, block_available_gas>>)],
                  pending |-> None, alive |-> "live"]
            ELSE IF evm_err
            THEN TransactFailed(r, tx)
            ELSE [ret |-> [r EXCEPT !.transacted = TRUE],
                  pending |-> Some([tx |-> tx, result |-> res,
                                    encoded |-> IF fp = None THEN 0 ELSE encoded,
                                    da_footprint |-> fp]),
                  alive |-> "live"]
    IN  IF checks = "panics" /\ ExecuteOverflows(tx)
        THEN [ret |-> [base EXCEPT !.kind = "panic"], pending |-> None, alive |-> "panicked"]
        ELSE IF TracksDaFootprint(tx)
        THEN IF fault
             THEN [ret |-> [read EXCEPT !.kind = "GetJovianDaFootprintScalar"],
                   pending |-> None, alive |-> "aborted"]
             ELSE IF DaCheckRejects(tx_da_footprint, da_footprint_available)
             THEN [ret |-> [est EXCEPT
                               !.kind = "TransactionDaFootprintAboveGasLimit",
                               !.err = Some(<<tx_da_footprint, da_footprint_available>>)],
                   pending |-> None, alive |-> "live"]
             ELSE gas_checked(est, Some(tx_da_footprint))
        ELSE gas_checked(base, None)

\* What execute_transaction_without_commit does with tx, given the size
\* estimate of its bytes, whether the scalar read faults and what the
\* interpreter would answer (an error, or the result res): the fields of
\* ret it sets, what the caller holds afterwards and whether the executor
\* stays usable.  checks is the build profile.
ExecuteOutcome(tx, encoded, fault, evm_err, res, checks) ==
    LET block_available_gas == WrappingSub(block_gas_limit, gas_used)
        da_footprint_available == WrappingSub(block_gas_limit, da_footprint_used)
        scalar == ScalarOfSlot(Storage(database))
        tx_da_footprint == DaFootprintEstimation(encoded, scalar)
        base == [BaseRet("execute") EXCEPT !.tx = Some(tx), !.encoded = encoded]
        read == [base EXCEPT !.scalar_reads = 1]
        est == [read EXCEPT !.est = Some(<<encoded, scalar, tx_da_footprint>>)]
        transact(r, fp) ==
            IF evm_err
            THEN TransactFailed(r, tx)
            ELSE [ret |-> [r EXCEPT !.transacted = TRUE],
                  pending |-> Some([tx |-> tx, result |-> res,
                                    encoded |-> IF fp = None THEN 0 ELSE encoded,
                                    da_footprint |-> fp]),
                  alive |-> "live"]
    IN  IF checks = "panics" /\ gas_used > block_gas_limit
        THEN [ret |-> [base EXCEPT !.kind = "panic"], pending |-> None, alive |-> "panicked"]
        ELSE IF GasCheckRejects(tx)
        THEN [ret |-> [base EXCEPT
                          !.kind = "TransactionGasLimitMoreThanAvailableBlockGas",
                          !.err = Some(<<tx.gas_limit, block_available_gas>>)],
              pending |-> None, alive |-> "live"]
        ELSE IF TracksDaFootprint(tx)
        THEN IF checks = "panics" /\ da_footprint_used > block_gas_limit
             THEN [ret |-> [base EXCEPT !.kind = "panic"],
                   pending |-> None, alive |-> "panicked"]
             ELSE IF fault
             THEN [ret |-> [read EXCEPT !.kind = "GetJovianDaFootprintScalar"],
                   pending |-> None, alive |-> "aborted"]
             ELSE IF DaCheckRejects(tx_da_footprint, da_footprint_available)
             THEN [ret |-> [est EXCEPT
                               !.kind = "TransactionDaFootprintAboveGasLimit",
                               !.err = Some(<<tx_da_footprint, da_footprint_available>>)],
                   pending |-> None, alive |-> "live"]
             ELSE transact(est, Some(tx_da_footprint))
        ELSE transact(base, None)

\* execute_transaction_without_commit(tx).  It changes nothing of the
\* executor: it returns an error, or the interpreter's result for the caller
\* to commit.  A store fault is fatal to the block build and a panic unwinds:
\* the caller gives the executor up.  The caller is sequential: it disposes of
\* what one execute returned (commits or drops it) before the next call.
ExecuteTransactionWithoutCommit ==
    /\ alive = "live"
    /\ ret.op # "execute"
    /\ Len(receipts) < MaxTxs
    /\ \E tx \in Txs, evm_err \in BOOLEAN :
       \E encoded \in (IF TracksDaFootprint(tx) THEN EncodedSizes ELSE {0}),
          fault \in Faults(TracksDaFootprint(tx)),
          res \in (IF evm_err THEN {CHOOSE r \in EvmResults(tx) : TRUE} ELSE EvmResults(tx)) :
       \E checks \in Profiles(ExecuteOverflows(tx)) :
          LET o == ExecuteOutcome(tx, encoded, fault, evm_err, res, checks)
          IN  /\ overflow_checks' = checks
              /\ ret' = o.ret
              /\ pending' = o.pending
              /\ alive' = o.alive
    /\ UNCHANGED <<fork, block_gas_limit, database, cache, receipts,
                   gas_used, da_footprint_used, reported, call>>

\* The caller drops what execute returned, an error or a result, without
\* committing it.
DiscardResult ==
    /\ alive = "live"
    /\ ret.op = "execute"
    /\ pending' = None
    /\ ret' = BaseRet("discard")
    /\ UNCHANGED <<overflow_checks, fork, block_gas_limit, database, cache, receipts,
                   gas_used, da_footprint_used, alive, reported, call>>

\* ------------------------------------------------------- commit_transaction

\* The receipt a receipt builder makes of a non-deposit transaction
\* (build_receipt returning Ok): the success flag, the cumulative gas and the
\* logs of the result; no deposit fields.
BuildReceipt(result, cumulative_gas_used) ==
    [status |-> result.is_success, cumulative_gas_used |-> cumulative_gas_used,
     logs |-> result.logs, deposit_nonce |-> None, deposit_receipt_version |-> None]

\* Faulty variant of BuildDepositReceipt: the receipt carries the deposit's own
\* gas, not the cumulative gas.
BuildDepositReceipt_OwnGas(result, cumulative_gas_used, depositor, is_deposit) ==
    [status |-> result.is_success, cumulative_gas_used |-> result.gas_used,
     logs |-> result.logs, deposit_nonce |-> depositor,
     deposit_receipt_version |->
        IF is_deposit /\ is_canyon_active THEN Some(DepositReceiptVersion) ELSE None]

\* Faulty variant of BuildDepositReceipt: the version marker is set for every
\* deposit, whatever the fork.
BuildDepositReceipt_AlwaysVersioned(result, cumulative_gas_used, depositor, is_deposit) ==
    [status |-> result.is_success, cumulative_gas_used |-> cumulative_gas_used,
     logs |-> result.logs, deposit_nonce |-> depositor,
     deposit_receipt_version |-> IF is_deposit THEN Some(DepositReceiptVersion) ELSE None]

\* The deposit receipt of lines 301-323 (build_receipt returning Err).
BuildDepositReceipt(result, cumulative_gas_used, depositor, is_deposit) ==
    [status |-> result.is_success, cumulative_gas_used |-> cumulative_gas_used,
     logs |-> result.logs, deposit_nonce |-> depositor,
     deposit_receipt_version |->
        IF is_deposit /\ is_canyon_active THEN Some(DepositReceiptVersion) ELSE None]

\* Faulty variant of AppendGasUsed: the counter is overwritten, not advanced.
AppendGasUsed_Overwrites(total, gas) == gas

\* self.gas_used += gas_used (line 281), in a build that wraps.
AppendGasUsed(total, gas) == WrappingAdd(total, gas)

\* Faulty variant of CommitReturn: the running total is returned.
CommitReturn_Cumulative(gas, total) == total

\* The value commit_transaction returns (line 330), given the transaction's
\* gas and the running total.
CommitReturn(gas, total) == gas

\* self.da_footprint_used after line 289.
AddDaFootprint(total, tx_da_footprint) == SaturatingAdd(total, tx_da_footprint)

\* Faulty variant of CommitState: the delta is written through to the backing
\* database.
CommitState_WritesThrough(db, c) ==
    [database |-> [db EXCEPT !.writes = @ + 1],
     cache |-> [c EXCEPT !.commits = @ + 1, !.nonce = @ + 1]]

\* self.evm.db_mut().commit(state) (line 328): State applies the delta to its
\* cache; the backing database behind it is only read.  Every delta bumps the
\* signer's nonce.
CommitState(db, c) ==
    [database |-> db, cache |-> [c EXCEPT !.commits = @ + 1, !.nonce = @ + 1]]

\* What commit_transaction does with the pending result, given whether
\* loading the depositor and reading the scalar fault: the executor's fields
\* afterwards and the call's record.  The steps run in the order of the code,
\* and a step that fails leaves what the earlier steps did.
CommitOutcome(fault_account, fault_scalar, checks) ==
    LET tx == pending[1].tx
        result == pending[1].result
        is_deposit == tx.is_deposit
        loads == is_regolith /\ is_deposit
        depositor == IF loads THEN Some(cache.nonce) ELSE None
        hook == [source |-> "Transaction", index |-> Len(receipts)]
        gas == result.gas_used
        total == AppendGasUsed(gas_used, gas)
        scalar == ScalarOfSlot(Storage(database))
        tx_da_footprint == DaFootprintEstimation(pending[1].encoded, scalar)
        da == IF TracksDaFootprint(tx)
              THEN AddDaFootprint(da_footprint_used, tx_da_footprint)
              ELSE da_footprint_used
        receipt == IF is_deposit
                   THEN BuildDepositReceipt(result, total, depositor, is_deposit)
                   ELSE BuildReceipt(result, total)
        base == [BaseRet("commit") EXCEPT !.account_loads = IF loads THEN 1 ELSE 0]
        hooked == [base EXCEPT !.hooks = <<hook>>]
        read == [hooked EXCEPT !.scalar_reads = 1]
        committed == CommitState(database, cache)
        same == [gas_used |-> gas_used, da_footprint_used |-> da_footprint_used,
                 receipts |-> receipts, cache |-> cache, database |-> database,
                 reported |-> reported]
    IN  IF loads /\ fault_account
        THEN same @@ [ret |-> [base EXCEPT !.kind = "LoadCacheAccount"], alive |-> "aborted"]
        ELSE IF checks = "panics" /\ gas_used + gas > U64Max
        THEN same @@ [ret |-> [hooked EXCEPT !.kind = "panic"], alive |-> "panicked"]
        ELSE IF TracksDaFootprint(tx) /\ fault_scalar
        THEN [same EXCEPT !.gas_used = total]
             @@ [ret |-> [read EXCEPT !.kind = "GetJovianDaFootprintScalar"],
                 alive |-> "aborted"]
        ELSE [gas_used |-> total,
              da_footprint_used |-> da,
              receipts |-> Append(receipts, receipt),
              cache |-> committed.cache,
              database |-> committed.database,
              reported |-> Append(reported, [is_deposit |-> is_deposit, gas_used |-> gas]),
              ret |-> [(IF TracksDaFootprint(tx) THEN read ELSE hooked)
                          EXCEPT !.gas = CommitReturn(gas, total)],
              alive |-> "live"]

\* commit_transaction(output, tx), called with the result the last execute
\* returned for tx.
CommitTransaction ==
    /\ alive = "live"
    /\ pending # None
    /\ \E fault_account \in Faults(is_regolith /\ pending[1].tx.is_deposit),
          fault_scalar \in Faults(TracksDaFootprint(pending[1].tx)) :
       \E checks \in Profiles(~fault_account
                                /\ gas_used + pending[1].result.gas_used > U64Max) :
          LET o == CommitOutcome(fault_account, fault_scalar, checks)
          IN  /\ overflow_checks' = checks
              /\ gas_used' = o.gas_used
              /\ da_footprint_used' = o.da_footprint_used
              /\ receipts' = o.receipts
              /\ cache' = o.cache
              /\ database' = o.database
              /\ reported' = o.reported
              /\ ret' = o.ret
              /\ alive' = o.alive
    /\ pending' = None
    /\ UNCHANGED <<fork, block_gas_limit, call>>

\* ------------------------------------------------------------------ finish

\* legacy_gas_used of lines 353-354: the last receipt's cumulative gas, or 0.
LegacyGasUsed(rs) == IF rs = <<>> THEN 0 ELSE rs[Len(rs)].cumulative_gas_used

\* Faulty variant of BlockExecutionResult: the larger of the two totals is
\* reported as gas_used.
BlockExecutionResult_Mixed ==
    [receipts |-> receipts,
     gas_used |-> IF da_footprint_used > LegacyGasUsed(receipts)
                  THEN da_footprint_used ELSE LegacyGasUsed(receipts),
     blob_gas_used |-> da_footprint_used]

\* The BlockExecutionResult of lines 358-363.
BlockExecutionResult ==
    [receipts |-> receipts, gas_used |-> LegacyGasUsed(receipts),
     blob_gas_used |-> da_footprint_used]

\* Faulty variant of IncrementBalances: skipped for a block without
\* transactions.
IncrementBalances_SkipsEmptyBlock(c) ==
    IF receipts = <<>> THEN c ELSE [c EXCEPT !.increments = @ + 1]

\* increment_balances on the cache (lines 339-342); the increments of an OP
\* block (no withdrawals, no block reward) are computed and applied whatever
\* the block holds.
IncrementBalances(c) == [c EXCEPT !.increments = @ + 1]

\* What finish does, given whether increment_balances and the state read of
\* the hook notification fault.
FinishOutcome(fault_increment, fault_hook) ==
    LET base == BaseRet("finish")
        hook == [source |-> "PostBlock", index |-> 0]
        incremented == IncrementBalances(cache)
    IN  IF fault_increment
        THEN [ret |-> [base EXCEPT !.kind = "IncrementBalanceFailed"], cache |-> cache]
        ELSE IF fault_hook
        THEN [ret |-> [base EXCEPT !.kind = "Other"], cache |-> incremented]
        ELSE [ret |-> [base EXCEPT !.hooks = <<hook>>,
                                   !.result = Some(BlockExecutionResult)],
              cache |-> incremented]

\* Faulty variant of Finish: the executor is borrowed, not consumed.
Finish_KeepsExecutor ==
    /\ alive = "live"
    /\ ret.op # "execute"
    /\ \E fault_increment \in BOOLEAN, fault_hook \in BOOLEAN :
          LET o == FinishOutcome(fault_increment, fault_hook)
          IN  /\ ret' = o.ret
              /\ cache' = o.cache
    /\ pending' = None
    /\ UNCHANGED <<overflow_checks, fork, block_gas_limit, database, receipts,
                   gas_used, da_footprint_used, reported, alive, call>>

\* finish(self): consumes the executor whatever it returns.
Finish ==
    /\ alive = "live"
    /\ ret.op # "execute"
    /\ \E fault_increment \in BOOLEAN, fault_hook \in BOOLEAN :
          LET o == FinishOutcome(fault_increment, fault_hook)
          IN  /\ ret' = o.ret
              /\ cache' = o.cache
    /\ alive' = "finished"
    /\ pending' = None
    /\ UNCHANGED <<overflow_checks, fork, block_gas_limit, database, receipts,
                   gas_used, da_footprint_used, reported, call>>

\* ----------------------------------------------------------- specification

Next ==
    \/ ApplyPreExecutionChanges
    \/ ExecuteTransactionWithoutCommit
    \/ DiscardResult
    \/ CommitTransaction
    \/ Finish

Spec == Init /\ [][Next]_vars

\* =================================================== fork resolution
\* crates/evm/src/spec.rs and crates/evm/src/op/spec_id.rs

\* ForkCondition, as far as the chain rules of the model use it.
Never == [kind |-> "Never", at |-> 0]
Block(n) == [kind |-> "Block", at |-> n]
Timestamp(t) == [kind |-> "Timestamp", at |-> t]

\* Faulty variant of ActiveAtTimestamp: the activation point itself is excluded.
ActiveAtTimestamp_Exclusive(cond, timestamp) ==
    cond.kind = "Timestamp" /\ timestamp > cond.at

\* is_<fork>_active_at_timestamp: the fork's condition is a timestamp that
\* has been reached.
ActiveAtTimestamp(cond, timestamp) ==
    cond.kind = "Timestamp" /\ timestamp >= cond.at

\* is_<fork>_active_at_block: the fork's condition is a block number that has
\* been reached.
ActiveAtBlock(cond, block_number) ==
    cond.kind = "Block" /\ block_number >= cond.at

\* The Ethereum forks spec_by_timestamp_and_block_number asks for, oldest
\* first, the SpecId it answers for each, and the forks it asks for by
\* timestamp.
EthForks ==
    <<"Homestead", "Tangerine", "SpuriousDragon", "Byzantium", "Petersburg", "Istanbul",
      "Berlin", "London", "Paris", "Shanghai", "Cancun", "Prague", "Osaka">>
EthSpecIds ==
    <<"HOMESTEAD", "TANGERINE", "SPURIOUS_DRAGON", "BYZANTIUM", "PETERSBURG", "ISTANBUL",
      "BERLIN", "LONDON", "MERGE", "SHANGHAI", "CANCUN", "PRAGUE", "OSAKA">>
EthTimestampForks == {"Shanghai", "Cancun", "Prague", "Osaka"}

\* The OP forks spec_by_timestamp_after_bedrock asks for, oldest first, and
\* the OpSpecId it answers for each.
OpForks ==
    <<"Regolith", "Canyon", "Ecotone", "Fjord", "Granite", "Holocene", "Isthmus",
      "Jovian", "Interop">>
OpSpecIds ==
    <<"REGOLITH", "CANYON", "ECOTONE", "FJORD", "GRANITE", "HOLOCENE", "ISTHMUS",
      "JOVIAN", "INTEROP">>

\* The names in a sequence of forks.
Names(forks) == {forks[i] : i \in 1..Len(forks)}

\* Faulty variant of SpecByTimestampAndBlockNumber: Cancun is asked for
\* before Prague.
SpecByTimestampAndBlockNumber_CancunFirst(chain_spec, timestamp, block_number) ==
    IF ActiveAtTimestamp(chain_spec["Osaka"], timestamp) THEN "OSAKA"
    ELSE IF ActiveAtTimestamp(chain_spec["Cancun"], timestamp) THEN "CANCUN"
    ELSE IF ActiveAtTimestamp(chain_spec["Prague"], timestamp) THEN "PRAGUE"
    ELSE IF ActiveAtTimestamp(chain_spec["Shanghai"], timestamp) THEN "SHANGHAI"
    ELSE IF ActiveAtBlock(chain_spec["Paris"], block_number) THEN "MERGE"
    ELSE IF ActiveAtBlock(chain_spec["London"], block_number) THEN "LONDON"
    ELSE IF ActiveAtBlock(chain_spec["Berlin"], block_number) THEN "BERLIN"
    ELSE IF ActiveAtBlock(chain_spec["Istanbul"], block_number) THEN "ISTANBUL"
    ELSE IF ActiveAtBlock(chain_spec["Petersburg"], block_number) THEN "PETERSBURG"
    ELSE IF ActiveAtBlock(chain_spec["Byzantium"], block_number) THEN "BYZANTIUM"
    ELSE IF ActiveAtBlock(chain_spec["SpuriousDragon"], block_number) THEN "SPURIOUS_DRAGON"
    ELSE IF ActiveAtBlock(chain_spec["Tangerine"], block_number) THEN "TANGERINE"
    ELSE IF ActiveAtBlock(chain_spec["Homestead"], block_number) THEN "HOMESTEAD"
    ELSE "FRONTIER"

\* spec_by_timestamp_and_block_number (spec.rs lines 16-53).
SpecByTimestampAndBlockNumber(chain_spec, timestamp, block_number) ==
    IF ActiveAtTimestamp(chain_spec["Osaka"], timestamp) THEN "OSAKA"
    ELSE IF ActiveAtTimestamp(chain_spec["Prague"], timestamp) THEN "PRAGUE"
    ELSE IF ActiveAtTimestamp(chain_spec["Cancun"], timestamp) THEN "CANCUN"
    ELSE IF ActiveAtTimestamp(chain_spec["Shanghai"], timestamp) THEN "SHANGHAI"
    ELSE IF ActiveAtBlock(chain_spec["Paris"], block_number) THEN "MERGE"
    ELSE IF ActiveAtBlock(chain_spec["London"], block_number) THEN "LONDON"
    ELSE IF ActiveAtBlock(chain_spec["Berlin"], block_number) THEN "BERLIN"
    ELSE IF ActiveAtBlock(chain_spec["Istanbul"], block_number) THEN "ISTANBUL"
    ELSE IF ActiveAtBlock(chain_spec["Petersburg"], block_number) THEN "PETERSBURG"
    ELSE IF ActiveAtBlock(chain_spec["Byzantium"], block_number) THEN "BYZANTIUM"
    ELSE IF ActiveAtBlock(chain_spec["SpuriousDragon"], block_number) THEN "SPURIOUS_DRAGON"
    ELSE IF ActiveAtBlock(chain_spec["Tangerine"], block_number) THEN "TANGERINE"
    ELSE IF ActiveAtBlock(chain_spec["Homestead"], block_number) THEN "HOMESTEAD"
    ELSE "FRONTIER"

\* spec_by_timestamp_after_bedrock (op/spec_id.rs lines 16-38).
SpecByTimestampAfterBedrock(chain_spec, timestamp) ==
    IF ActiveAtTimestamp(chain_spec["Interop"], timestamp) THEN "INTEROP"
    ELSE IF ActiveAtTimestamp(chain_spec["Jovian"], timestamp) THEN "JOVIAN"
    ELSE IF ActiveAtTimestamp(chain_spec["Isthmus"], timestamp) THEN "ISTHMUS"
    ELSE IF ActiveAtTimestamp(chain_spec["Holocene"], timestamp) THEN "HOLOCENE"
    ELSE IF ActiveAtTimestamp(chain_spec["Granite"], timestamp) THEN "GRANITE"
    ELSE IF ActiveAtTimestamp(chain_spec["Fjord"], timestamp) THEN "FJORD"
    ELSE IF ActiveAtTimestamp(chain_spec["Ecotone"], timestamp) THEN "ECOTONE"
    ELSE IF ActiveAtTimestamp(chain_spec["Canyon"], timestamp) THEN "CANYON"
    ELSE IF ActiveAtTimestamp(chain_spec["Regolith"], timestamp) THEN "REGOLITH"
    ELSE "BEDROCK"

\* ------------------------------------------------------------ chain rules

\* The timestamps, block numbers and activation points of the model.
Points == 0..MaxPoint

\* The condition that activates fork f at point p on a chain that gates the
\* forks of by_timestamp by timestamp and the others by block number.
Gate(f, p, by_timestamp) == IF f \in by_timestamp THEN Timestamp(p) ELSE Block(p)

\* A monotonic activation schedule of forks: cuts[p] is the number of forks,
\* oldest first, activated at point p or earlier; the others never are.
ScheduleOf(forks, by_timestamp, cuts) ==
    [f \in Names(forks) |->
        LET i == CHOOSE k \in 1..Len(forks) : forks[k] = f
            reached == {p \in Points : i <= cuts[p]}
        IN  IF reached = {} THEN Never
            ELSE Gate(f, CHOOSE p \in reached : \A q \in reached : p <= q, by_timestamp)]

\* The monotonic activation schedules of forks over the points of the model.
MonotonicSchedules(forks, by_timestamp) ==
    {ScheduleOf(forks, by_timestamp, cuts) :
        cuts \in {c \in [Points -> 0..Len(forks)] :
                    \A p \in Points : p = 0 \/ c[p - 1] <= c[p]}}

\* The rule sets that activate a few forks, all at one point, and no others
\* (the FakeHardfork of the tests activates one).
FewForkRules(forks, by_timestamp) ==
    {[f \in Names(forks) |-> IF f \in S THEN Gate(f, p, by_timestamp) ELSE Never] :
        S \in {T \in SUBSET Names(forks) : Cardinality(T) <= MaxActivated}, p \in Points}

\* Chain rules implementing EthereumHardforks, and OpHardforks.
EthChainSpecs ==
    MonotonicSchedules(EthForks, EthTimestampForks) \cup FewForkRules(EthForks, EthTimestampForks)
OpChainSpecs ==
    MonotonicSchedules(OpForks, Names(OpForks)) \cup FewForkRules(OpForks, Names(OpForks))

\* ------------------------------------------------------------------ calls

\* spec_by_timestamp_and_block_number(chain_spec, timestamp, block_number)
ResolveEthSpec ==
    /\ call = NoCall
    /\ \E chain_spec \in EthChainSpecs, timestamp \in Points, block_number \in Points :
          call' = [fn |-> "spec_by_timestamp_and_block_number",
                   chain_spec |-> chain_spec, timestamp |-> timestamp,
                   block_number |-> block_number,
                   out |-> SpecByTimestampAndBlockNumber(chain_spec, timestamp, block_number)]
    /\ UNCHANGED executor

\* spec_by_timestamp_after_bedrock(chain_spec, timestamp)
ResolveOpSpec ==
    /\ call = NoCall
    /\ \E chain_spec \in OpChainSpecs, timestamp \in Points :
          call' = [fn |-> "spec_by_timestamp_after_bedrock",
                   chain_spec |-> chain_spec, timestamp |-> timestamp,
                   out |-> SpecByTimestampAfterBedrock(chain_spec, timestamp)]
    /\ UNCHANGED executor

\* ======================================================== environments
\* crates/evm/src/eth/env.rs and crates/evm/src/op/env.rs

\* Option::unwrap_or_default of an optional u64.
UnwrapOrDefault(opt) == IF opt = None THEN 0 ELSE opt[1]

\* The place of a SpecId in the order of SpecId (>=, is_enabled_in).
EthSpecRank(id) ==
    IF id = "FRONTIER" THEN 0 ELSE CHOOSE i \in 1..Len(EthSpecIds) : EthSpecIds[i] = id

\* OpSpecId::into_eth_spec.
IntoEthSpec(op_spec) ==
    IF op_spec \in {"BEDROCK", "REGOLITH"} THEN "MERGE"
    ELSE IF op_spec = "CANYON" THEN "SHANGHAI"
    ELSE IF op_spec \in {"ECOTONE", "FJORD", "GRANITE", "HOLOCENE"} THEN "CANCUN"
    ELSE "PRAGUE"

\* BlobParams::calc_blob_fee and BlobParams::next_block_excess_blob_gas_osaka
\* are functions of alloy_eips: each is the term of its arguments.
CalcBlobFee(params, excess_blob_gas) == <<"calc_blob_fee", params, excess_blob_gas>>
NextBlockExcessBlobGasOsaka(params, excess_blob_gas, blob_gas_used, base_fee_per_gas) ==
    <<"next_block_excess_blob_gas_osaka", params, excess_blob_gas, blob_gas_used,
      base_fee_per_gas>>

\* EvmEnvInput::from_block_header
FromBlockHeader(header) ==
    [timestamp |-> header.timestamp,
     height |-> header.number,
     beneficiary |-> header.beneficiary,
     mix_hash |-> header.mix_hash,
     difficulty |-> header.difficulty,
     gas_limit |-> header.gas_limit,
     excess_blob_gas |-> header.excess_blob_gas,
     base_fee_per_gas |-> UnwrapOrDefault(header.base_fee_per_gas),
     blob_gas_used |-> None]

\* EvmEnvInput::from_parent_header (the block numbers of the model are far
\* from the end of u64, where number + 1 overflows).
FromParentHeader(header, attributes, base_fee_per_gas) ==
    [timestamp |-> attributes.timestamp,
     height |-> header.number + 1,
     beneficiary |-> attributes.suggested_fee_recipient,
     mix_hash |-> Some(attributes.prev_randao),
     difficulty |-> header.difficulty,
     gas_limit |-> attributes.gas_limit,
     excess_blob_gas |-> header.excess_blob_gas,
     base_fee_per_gas |-> base_fee_per_gas,
     blob_gas_used |-> header.blob_gas_used]

\* The CfgEnv both Ethereum builders make: the resolved spec, the chain id,
\* the blob limit of the blob parameters and the Osaka gas cap.
EthCfgEnv(spec, chain_spec, timestamp, chain_id, blob_params) ==
    [spec |-> spec,
     chain_id |-> chain_id,
     max_blobs_per_tx |->
        IF blob_params # None THEN Some(<<"max_blobs_per_tx", blob_params[1]>>) ELSE None,
     tx_gas_limit_cap |->
        IF ActiveAtTimestamp(chain_spec["Osaka"], timestamp)
        THEN Some("MAX_TX_GAS_LIMIT_OSAKA") ELSE None]

\* Faulty variant of ForEth: the fields of the merge are set as for_eth_next
\* sets them.
ForEth_AlwaysMerged(input, chain_spec, chain_id, blob_params) ==
    LET spec == SpecByTimestampAndBlockNumber(chain_spec, input.timestamp, input.height)
    IN  [cfg_env |-> EthCfgEnv(spec, chain_spec, input.timestamp, chain_id, blob_params),
         block_env |->
            [number |-> input.height,
             beneficiary |-> input.beneficiary,
             timestamp |-> input.timestamp,
             difficulty |-> 0,
             prevrandao |-> input.mix_hash,
             gas_limit |-> input.gas_limit,
             basefee |-> input.base_fee_per_gas,
             blob_excess_gas_and_price |->
                IF input.excess_blob_gas # None /\ blob_params # None
                THEN Some([excess_blob_gas |-> input.excess_blob_gas[1],
                           blob_gasprice |->
                              CalcBlobFee(blob_params[1], input.excess_blob_gas[1])])
                ELSE None]]

\* Faulty variant of ForEth: the spec is resolved from the block number alone.
ForEth_ResolvesByNumber(input, chain_spec, chain_id, blob_params) ==
    LET spec == SpecByTimestampAndBlockNumber(chain_spec, 0, input.height)
        is_merge_active == ActiveAtBlock(chain_spec["Paris"], input.height)
    IN  [cfg_env |-> EthCfgEnv(spec, chain_spec, input.timestamp, chain_id, blob_params),
         block_env |->
            [number |-> input.height,
             beneficiary |-> input.beneficiary,
             timestamp |-> input.timestamp,
             difficulty |-> IF is_merge_active THEN 0 ELSE input.difficulty,
             prevrandao |-> IF is_merge_active THEN input.mix_hash ELSE None,
             gas_limit |-> input.gas_limit,
             basefee |-> input.base_fee_per_gas,
             blob_excess_gas_and_price |->
                IF input.excess_blob_gas # None /\ blob_params # None
                THEN Some([excess_blob_gas |-> input.excess_blob_gas[1],
                           blob_gasprice |->
                              CalcBlobFee(blob_params[1], input.excess_blob_gas[1])])
                ELSE None]]

\* EvmEnv::for_eth (eth/env.rs lines 57-100).
ForEth(input, chain_spec, chain_id, blob_params) ==
    LET spec == SpecByTimestampAndBlockNumber(chain_spec, input.timestamp, input.height)
        is_merge_active == ActiveAtBlock(chain_spec["Paris"], input.height)
    IN  [cfg_env |-> EthCfgEnv(spec, chain_spec, input.timestamp, chain_id, blob_params),
         block_env |->
            [number |-> input.height,
             beneficiary |-> input.beneficiary,
             timestamp |-> input.timestamp,
             difficulty |-> IF is_merge_active THEN 0 ELSE input.difficulty,
             prevrandao |-> IF is_merge_active THEN input.mix_hash ELSE None,
             gas_limit |-> input.gas_limit,
             basefee |-> input.base_fee_per_gas,
             blob_excess_gas_and_price |->
                IF input.excess_blob_gas # None /\ blob_params # None
                THEN Some([excess_blob_gas |-> input.excess_blob_gas[1],
                           blob_gasprice |->
                              CalcBlobFee(blob_params[1], input.excess_blob_gas[1])])
                ELSE None]]

\* The excess blob gas for_eth_next settles on: the update formula when the
\* blob parameters and both blob fields of the parent are there, else 0 when
\* the spec is CANCUN, else none.
NextExcessBlobGas(input, spec, blob_params) ==
    IF blob_params # None /\ input.excess_blob_gas # None /\ input.blob_gas_used # None
    THEN Some(NextBlockExcessBlobGasOsaka(blob_params[1], input.excess_blob_gas[1],
                                          input.blob_gas_used[1], input.base_fee_per_gas))
    ELSE IF spec = "CANCUN" THEN Some(0) ELSE None

\* EvmEnv::for_eth_next (eth/env.rs lines 102-152).
ForEthNext(input, chain_spec, chain_id, blob_params) ==
    LET spec == SpecByTimestampAndBlockNumber(chain_spec, input.timestamp, input.height)
        excess == NextExcessBlobGas(input, spec, blob_params)
        params == IF blob_params # None THEN blob_params[1] ELSE "cancun"
    IN  [cfg_env |-> EthCfgEnv(spec, chain_spec, input.timestamp, chain_id, blob_params),
         block_env |->
            [number |-> input.height,
             beneficiary |-> input.beneficiary,
             timestamp |-> input.timestamp,
             difficulty |-> 0,
             prevrandao |-> input.mix_hash,
             gas_limit |-> input.gas_limit,
             basefee |-> input.base_fee_per_gas,
             blob_excess_gas_and_price |->
                IF excess # None
                THEN Some([excess_blob_gas |-> excess[1],
                           blob_gasprice |-> CalcBlobFee(params, excess[1])])
                ELSE None]]

\* EvmEnv::for_op (op/env.rs lines 55-79).
ForOp(input, chain_spec, chain_id) ==
    LET spec == SpecByTimestampAfterBedrock(chain_spec, input.timestamp)
        is_merge_active == EthSpecRank(IntoEthSpec(spec)) >= EthSpecRank("MERGE")
    IN  [cfg_env |-> [spec |-> spec, chain_id |-> chain_id],
         block_env |->
            [number |-> input.height,
             beneficiary |-> input.beneficiary,
             timestamp |-> input.timestamp,
             difficulty |-> IF is_merge_active THEN 0 ELSE input.difficulty,
             prevrandao |-> IF is_merge_active THEN input.mix_hash ELSE None,
             gas_limit |-> input.gas_limit,
             basefee |-> input.base_fee_per_gas,
             blob_excess_gas_and_price |->
                IF EthSpecRank(IntoEthSpec(spec)) >= EthSpecRank("CANCUN")
                THEN Some([excess_blob_gas |-> 0, blob_gasprice |-> 1])
                ELSE None]]

\* ------------------------------------------------------- headers

\* Every field of a header carries a value of its own, so that a field taken
\* from the wrong place shows; v tells two headers apart.
FieldValues == {1, 2}
HeaderOf(number, timestamp, v, has_excess, has_base_fee, has_used) ==
    [number |-> number,
     timestamp |-> timestamp,
     beneficiary |-> <<"address", v>>,
     mix_hash |-> Some(<<"b256", v>>),
     difficulty |-> v,
     gas_limit |-> v + 2,
     excess_blob_gas |-> IF has_excess THEN Some(v + 4) ELSE None,
     base_fee_per_gas |-> IF has_base_fee THEN Some(v + 6) ELSE None,
     blob_gas_used |-> IF has_used THEN Some(v + 8) ELSE None]

\* The headers of blocks: the two blob fields come together.
BlockHeaders ==
    {HeaderOf(n, t, v, e, b, e) : n \in Points, t \in Points, v \in FieldValues,
                                  e \in BOOLEAN, b \in BOOLEAN}

\* The headers of parents: for_eth_next_block reads their number, difficulty
\* and blob fields only.
ParentHeaders ==
    {HeaderOf(n, 0, v, e, TRUE, u) : n \in Points, v \in FieldValues,
                                     e \in BOOLEAN, u \in BOOLEAN}

\* NextEvmEnvAttributes and the base fee of the next block, with values that
\* differ from those of the parent header of value v.
AttributesOf(timestamp, v) ==
    [timestamp |-> timestamp,
     suggested_fee_recipient |-> <<"address", 3 - v>>,
     prev_randao |-> <<"b256", 3 - v>>,
     gas_limit |-> 5 - v]
NextBaseFeeOf(v) == 9 - v

ChainIds == {1}
BlobParamsOptions == {None, Some("prague")}

\* EvmEnv::for_eth_block(header, chain_spec, chain_id, blob_params)
ForEthBlock ==
    /\ call = NoCall
    /\ \E header \in BlockHeaders, chain_spec \in EthChainSpecs, chain_id \in ChainIds,
          blob_params \in BlobParamsOptions :
          call' = [fn |-> "for_eth_block", header |-> header, chain_spec |-> chain_spec,
                   chain_id |-> chain_id, blob_params |-> blob_params,
                   out |-> ForEth(FromBlockHeader(header), chain_spec, chain_id, blob_params)]
    /\ UNCHANGED executor

\* EvmEnv::for_eth_next_block(header, attributes, base_fee_per_gas, chain_spec,
\* chain_id, blob_params)
ForEthNextBlock ==
    /\ call = NoCall
    /\ \E header \in ParentHeaders, timestamp \in Points, chain_spec \in EthChainSpecs,
          chain_id \in ChainIds, blob_params \in BlobParamsOptions :
          LET attributes == AttributesOf(timestamp, header.difficulty)
              base_fee_per_gas == NextBaseFeeOf(header.difficulty)
          IN  call' = [fn |-> "for_eth_next_block", header |-> header,
                       attributes |-> attributes, base_fee_per_gas |-> base_fee_per_gas,
                       chain_spec |-> chain_spec, chain_id |-> chain_id,
                       blob_params |-> blob_params,
                       out |-> ForEthNext(
                                  FromParentHeader(header, attributes, base_fee_per_gas),
                                  chain_spec, chain_id, blob_params)]
    /\ UNCHANGED executor

\* EvmEnv::for_op_block(header, chain_spec, chain_id)
ForOpBlock ==
    /\ call = NoCall
    /\ \E header \in BlockHeaders, chain_spec \in OpChainSpecs, chain_id \in ChainIds :
          call' = [fn |-> "for_op_block", header |-> header, chain_spec |-> chain_spec,
                   chain_id |-> chain_id,
                   out |-> ForOp(FromBlockHeader(header), chain_spec, chain_id)]
    /\ UNCHANGED executor

\* ================================================= transaction requests
\* crates/evm/src/rpc/transaction.rs and crates/evm/src/op/rpc.rs

Ok(value) == [kind |-> "Ok", value |-> value]
Err(error) == [kind |-> "Err", error |-> error]

\* CallFees::ensure_fees (rpc/fees.rs), as the specification gives the fee
\* precedence: an explicit legacy gas price is both price and priority fee;
\* explicit fee-market fields need max_fee_per_gas >= max_priority_fee_per_gas;
\* without either the price is the base fee of the block and the priority fee
\* zero; the blob fee follows the same policy against the blob base fee.
EnsureFees(gas_price, max_fee_per_gas, max_priority_fee_per_gas, block_base_fee, max_fee_per_blob_gas, block_blob_fee) ==
    LET blob_fee == IF max_fee_per_blob_gas # None THEN max_fee_per_blob_gas
                    ELSE block_blob_fee
    IN  IF gas_price # None
        THEN Ok([gas_price |-> gas_price[1], max_priority_fee_per_gas |-> gas_price,
                 max_fee_per_blob_gas |-> blob_fee])
        ELSE IF max_fee_per_gas # None /\ max_priority_fee_per_gas # None
        THEN IF max_fee_per_gas[1] < max_priority_fee_per_gas[1]
             THEN Err(<<"CallFees", "max fee per gas below max priority fee per gas">>)
             ELSE Ok([gas_price |-> max_fee_per_gas[1],
                      max_priority_fee_per_gas |-> max_priority_fee_per_gas,
                      max_fee_per_blob_gas |-> blob_fee])
        ELSE Ok([gas_price |-> block_base_fee, max_priority_fee_per_gas |-> Some(0),
                 max_fee_per_blob_gas |-> blob_fee])

\* Faulty variant of TryIntoUniqueInput: input wins over a different data.
TryIntoUniqueInput_PrefersInput(input) ==
    Ok(IF input.input # None THEN input.input ELSE input.data)

\* TransactionInput::try_into_unique_input (alloy_rpc_types_eth): input and
\* data are two names of one field; both set to different values is an error.
TryIntoUniqueInput(input) ==
    IF input.input # None /\ input.data # None /\ input.input # input.data
    THEN Err(<<"Input", "both data and input are set and not equal">>)
    ELSE Ok(IF input.input # None THEN input.input ELSE input.data)

\* TransactionRequest::minimal_tx_type (alloy_rpc_types_eth): a term of the
\* fields that are set.
MinimalTxType(request) ==
    <<"minimal_tx_type", request.gas_price # None,
      request.max_fee_per_gas # None \/ request.max_priority_fee_per_gas # None,
      request.access_list # None,
      request.blob_versioned_hashes # None \/ request.max_fee_per_blob_gas # None,
      request.authorization_list # None>>

\* Option::unwrap_or
UnwrapOr(opt, default) == IF opt = None THEN default ELSE opt[1]

\* BlockEnv::blob_gasprice
BlobGasprice(block_env) ==
    IF block_env.blob_excess_gas_and_price = None THEN None
    ELSE Some(block_env.blob_excess_gas_and_price[1].blob_gasprice)

\* Faulty variant of TxEnvOf: price and priority fee change places.
TxEnvOf_SwapsFees(request, fees, data, evm_env) ==
    [tx_type |-> MinimalTxType(request),
     gas_limit |-> UnwrapOr(request.gas, evm_env.block_env.gas_limit),
     nonce |-> UnwrapOr(request.nonce, 0),
     caller |-> UnwrapOr(request.from, "0x0"),
     gas_price |-> UnwrapOr(fees.max_priority_fee_per_gas, 0),
     gas_priority_fee |-> Some(fees.gas_price),
     kind |-> UnwrapOr(request.to, <<"Create">>),
     value |-> UnwrapOr(request.value, 0),
     data |-> UnwrapOr(data, <<>>),
     chain_id |-> Some(UnwrapOr(request.chain_id, evm_env.cfg_env.chain_id)),
     access_list |-> UnwrapOr(request.access_list, <<>>),
     blob_hashes |-> UnwrapOr(request.blob_versioned_hashes, <<>>),
     max_fee_per_blob_gas |-> UnwrapOr(fees.max_fee_per_blob_gas, 0),
     authorization_list |-> UnwrapOr(request.authorization_list, <<>>)]

\* Faulty variant of TxEnvOf: an omitted gas limit becomes 0 instead of the
\* gas limit of the block.
TxEnvOf_ZeroGasLimit(request, fees, data, evm_env) ==
    [tx_type |-> MinimalTxType(request),
     gas_limit |-> UnwrapOr(request.gas, 0),
     nonce |-> UnwrapOr(request.nonce, 0),
     caller |-> UnwrapOr(request.from, "0x0"),
     gas_price |-> fees.gas_price,
     gas_priority_fee |-> fees.max_priority_fee_per_gas,
     kind |-> UnwrapOr(request.to, <<"Create">>),
     value |-> UnwrapOr(request.value, 0),
     data |-> UnwrapOr(data, <<>>),
     chain_id |-> Some(UnwrapOr(request.chain_id, evm_env.cfg_env.chain_id)),
     access_list |-> UnwrapOr(request.access_list, <<>>),
     blob_hashes |-> UnwrapOr(request.blob_versioned_hashes, <<>>),
     max_fee_per_blob_gas |-> UnwrapOr(fees.max_fee_per_blob_gas, 0),
     authorization_list |-> UnwrapOr(request.authorization_list, <<>>)]

\* The TxEnv try_into_tx_env makes of a request and the reconciled fees (the
\* fees of the model are far below the u128 at which saturating_to cuts).
TxEnvOf(request, fees, data, evm_env) ==
    [tx_type |-> MinimalTxType(request),
     gas_limit |-> UnwrapOr(request.gas, evm_env.block_env.gas_limit),
     nonce |-> UnwrapOr(request.nonce, 0),
     caller |-> UnwrapOr(request.from, "0x0"),
     gas_price |-> fees.gas_price,
     gas_priority_fee |-> fees.max_priority_fee_per_gas,
     kind |-> UnwrapOr(request.to, <<"Create">>),
     value |-> UnwrapOr(request.value, 0),
     data |-> UnwrapOr(data, <<>>),
     chain_id |-> Some(UnwrapOr(request.chain_id, evm_env.cfg_env.chain_id)),
     access_list |-> UnwrapOr(request.access_list, <<>>),
     blob_hashes |-> UnwrapOr(request.blob_versioned_hashes, <<>>),
     max_fee_per_blob_gas |-> UnwrapOr(fees.max_fee_per_blob_gas, 0),
     authorization_list |-> UnwrapOr(request.authorization_list, <<>>)]

\* <TransactionRequest as TryIntoTxEnv<TxEnv>>::try_into_tx_env
\* (rpc/transaction.rs lines 40-119).
TryIntoTxEnv(request, evm_env) ==
    IF request.blob_versioned_hashes = Some(<<>>)
    THEN Err(<<"CallFees", "BlobTransactionMissingBlobHashes">>)
    ELSE
      LET fees == EnsureFees(request.gas_price, request.max_fee_per_gas,
                             request.max_priority_fee_per_gas, evm_env.block_env.basefee,
                             request.max_fee_per_blob_gas, BlobGasprice(evm_env.block_env))
          data == TryIntoUniqueInput(request.input)
      IN  IF fees.kind = "Err" THEN fees
          ELSE IF data.kind = "Err" THEN data
          ELSE Ok(TxEnvOf(request, fees.value, data.value, evm_env))

\* <OpTransactionRequest as TryIntoTxEnv<OpTransaction<TxEnv>>>::try_into_tx_env
\* (op/rpc.rs lines 14-23).
OpTryIntoTxEnv(request, evm_env) ==
    LET base == TryIntoTxEnv(request, evm_env)
    IN  IF base.kind = "Err" THEN base
        ELSE Ok([base |-> base.value, enveloped_tx |-> Some(<<>>), deposit |-> "default"])

\* ------------------------------------------------------------ requests

\* The fields try_into_tx_env fills when the request omits them.
DefaultedFields == {"from", "to", "gas", "nonce", "chain_id", "value"}

\* The fees of a request and the base fee of a block.
Fees == 0..MaxFee
OptionalFee == {None} \cup {Some(f) : f \in Fees}

\* The request with the fields of present set (the lists come with the
\* value), each to a value that differs from its default.
RequestOf(present, gas_price, fee_market, input, blob_versioned_hashes, max_fee_per_blob_gas) ==
    [from |-> IF "from" \in present THEN Some("0xa1") ELSE None,
     to |-> IF "to" \in present THEN Some(<<"Call", "0xb2">>) ELSE None,
     gas_price |-> gas_price,
     max_fee_per_gas |-> fee_market[1],
     max_priority_fee_per_gas |-> fee_market[2],
     gas |-> IF "gas" \in present THEN Some(1) ELSE None,
     value |-> IF "value" \in present THEN Some(1) ELSE None,
     input |-> input,
     nonce |-> IF "nonce" \in present THEN Some(1) ELSE None,
     access_list |-> IF "value" \in present THEN Some(<<"0xc3">>) ELSE None,
     chain_id |-> IF "chain_id" \in present THEN Some(2) ELSE None,
     blob_versioned_hashes |-> blob_versioned_hashes,
     max_fee_per_blob_gas |-> max_fee_per_blob_gas,
     authorization_list |-> IF "value" \in present THEN Some(<<"auth">>) ELSE None]

\* Requests: at most one defaulted field set or at most one omitted; the two
\* fee-market fields both set or both omitted; input and data omitted, one
\* set, equal, or different.
Requests ==
    {RequestOf(present, gas_price, fee_market, input, hashes, blob_fee) :
        present \in {S \in SUBSET DefaultedFields :
                        Cardinality(S) <= 1 \/ Cardinality(DefaultedFields \ S) <= 1},
        gas_price \in OptionalFee,
        fee_market \in {<<None, None>>} \cup {<<Some(f), Some(p)>> : f \in Fees, p \in Fees},
        input \in {[input |-> None, data |-> None],
                   [input |-> Some(<<1>>), data |-> None],
                   [input |-> None, data |-> Some(<<1>>)],
                   [input |-> Some(<<1>>), data |-> Some(<<1>>)],
                   [input |-> Some(<<1>>), data |-> Some(<<2>>)]},
        hashes \in {None, Some(<<>>), Some(<<"0xh1">>)},
        blob_fee \in {None, Some(2)}}

\* The environments a request is adapted to: what try_into_tx_env reads of
\* them.
TxEvmEnvs ==
    {[cfg_env |-> [chain_id |-> 1],
      block_env |-> [basefee |-> b, gas_limit |-> 3,
                     blob_excess_gas_and_price |->
                        Some([excess_blob_gas |-> 0, blob_gasprice |-> 1])]] :
        b \in Fees}

\* request.try_into_tx_env(&evm_env) of a TransactionRequest
EthTryIntoTxEnv ==
    /\ call = NoCall
    /\ \E request \in Requests, evm_env \in TxEvmEnvs :
          call' = [fn |-> "try_into_tx_env", request |-> request, evm_env |-> evm_env,
                   out |-> TryIntoTxEnv(request, evm_env)]
    /\ UNCHANGED executor

\* request.try_into_tx_env(&evm_env) of an OpTransactionRequest
OpTryIntoOpTransaction ==
    /\ call = NoCall
    /\ \E request \in Requests, evm_env \in TxEvmEnvs :
          call' = [fn |-> "op_try_into_tx_env", request |-> request, evm_env |-> evm_env,
                   out |-> OpTryIntoTxEnv(request, evm_env)]
    /\ UNCHANGED executor

\* =============================================================== errors
\* crates/evm/src/error.rs

\* InvalidTransaction (revm): the reasons the predicates ask for and some of
\* the others; detail stands for the fields a reason carries.
ReasonsWithFields ==
    {"NonceTooLow", "NonceTooHigh", "TxGasLimitGreaterThanCap",
     "CallGasCostMoreThanGasLimit", "GasFloorMoreThanGasLimit", "LackOfFundForMaxFee"}
UnitReasons == {"CallerGasLimitMoreThanBlock", "PriorityFeeGreaterThanMaxFee", "RejectCallerWithCode"}
InvalidTransactions ==
    {[type |-> "InvalidTransaction", reason |-> r, detail |-> d] :
        r \in ReasonsWithFields, d \in {1, 2}}
    \cup {[type |-> "InvalidTransaction", reason |-> r, detail |-> 0] : r \in UnitReasons}

\* op_revm::OpTransactionError: a base reason or a reason of the rollup.
OpTransactionErrors ==
    {[type |-> "OpTransactionError", variant |-> "Base", base |-> tx] : tx \in InvalidTransactions}
    \cup {[type |-> "OpTransactionError", variant |-> v] :
            v \in {"DepositSystemTxPostRegolith", "HaltedDepositPostRegolith"}}

\* EVMError<DBError, TxError> over both kinds of transaction error.
EVMErrors ==
    {[type |-> "EVMError", variant |-> "Transaction", err |-> e] :
        e \in InvalidTransactions \cup OpTransactionErrors}
    \cup {[type |-> "EVMError", variant |-> v] : v \in {"Header", "Database", "Custom"}}

\* InvalidTxError::as_invalid_tx_err of InvalidTransaction (lines 42-46) and
\* of OpTransactionError (lines 96-103).
AsInvalidTxErr(err) ==
    IF err.type = "InvalidTransaction" THEN Some(err)
    ELSE IF err.variant = "Base" THEN Some(err.base)
    ELSE None

\* InvalidTxError::is_nonce_too_low
IsNonceTooLow(err) ==
    LET e == AsInvalidTxErr(err)
    IN  e # None /\ e[1].reason = "NonceTooLow"

\* Faulty variant of IsGasLimitTooHigh: a gas limit below the call cost counts
\* as too high as well.
IsGasLimitTooHigh_AnyGasLimit(err) ==
    LET e == AsInvalidTxErr(err)
    IN  e # None /\ e[1].reason \in {"TxGasLimitGreaterThanCap", "CallerGasLimitMoreThanBlock",
                                      "CallGasCostMoreThanGasLimit"}

\* InvalidTxError::is_gas_limit_too_high
IsGasLimitTooHigh(err) ==
    LET e == AsInvalidTxErr(err)
    IN  e # None /\ e[1].reason \in {"TxGasLimitGreaterThanCap", "CallerGasLimitMoreThanBlock"}

\* InvalidTxError::is_gas_limit_too_low
IsGasLimitTooLow(err) ==
    LET e == AsInvalidTxErr(err)
    IN  e # None /\ e[1].reason \in {"CallGasCostMoreThanGasLimit", "GasFloorMoreThanGasLimit"}

\* EvmError::as_invalid_tx_err of EVMError (lines 80-85).
EvmAsInvalidTxErr(err) ==
    IF err.variant = "Transaction" THEN Some(err.err) ELSE None

\* The three predicates of a transaction error.
Classification(err) ==
    [is_nonce_too_low |-> IsNonceTooLow(err),
     is_gas_limit_too_high |-> IsGasLimitTooHigh(err),
     is_gas_limit_too_low |-> IsGasLimitTooLow(err)]

\* The three predicates asked of a transaction error
ClassifyTxError ==
    /\ call = NoCall
    /\ \E err \in InvalidTransactions \cup OpTransactionErrors :
          call' = [fn |-> "classify", error |-> err, out |-> Classification(err)]
    /\ UNCHANGED executor

\* The three predicates asked of the invalid transaction error of an EVM
\* error: none holds of an error without one.
ClassifyEvmError ==
    /\ call = NoCall
    /\ \E err \in EVMErrors :
          LET tx_err == EvmAsInvalidTxErr(err)
          IN  call' = [fn |-> "classify", error |-> err,
                       out |-> IF tx_err # None THEN Classification(tx_err[1])
                               ELSE [is_nonce_too_low |-> FALSE,
                                     is_gas_limit_too_high |-> FALSE,
                                     is_gas_limit_too_low |-> FALSE]]
    /\ UNCHANGED executor

\* ------------------------------------------- specification of the calls

\* The functions outside the executor are pure and keep no state: a
\* behaviour is one call with arguments of its own; no executor is run.
CallInit ==
    /\ call = NoCall
    /\ overflow_checks = "undetermined"
    /\ fork = "BEDROCK"
    /\ block_gas_limit = MaxBlockGas
    /\ database = [scalar_bytes |-> <<0, 0>>, writes |-> 0]
    /\ cache = [commits |-> 0, nonce |-> 0, increments |-> 0, system_calls |-> 0]
    /\ receipts = <<>>
    /\ gas_used = 0
    /\ da_footprint_used = 0
    /\ pending = None
    /\ alive = "live"
    /\ reported = <<>>
    /\ ret = BaseRet("new")

CallNext ==
    \/ ResolveEthSpec
    \/ ResolveOpSpec
    \/ ForEthBlock
    \/ ForEthNextBlock
    \/ ForOpBlock
    \/ EthTryIntoTxEnv
    \/ OpTryIntoOpTransaction
    \/ ClassifyTxError
    \/ ClassifyEvmError

CallSpec == CallInit /\ [][CallNext]_vars

\* ================================================================ claims

RECURSIVE SumGas(_)
\* The sum of the gas reported by the transactions of a history.
SumGas(h) == IF h = <<>> THEN 0 ELSE h[1].gas_used + SumGas(Tail(h))

\* The step is a commit_transaction call that returned Ok.
CommitSucceeded == ret'.op = "commit" /\ ret'.kind = "ok" /\ pending # None

\* C1: over successful commits, gas_used starts at 0, never decreases, each
\* commit advances it by exactly the gas its execution result reports, and so
\* it is the sum of the gas reported by the committed transactions.
C1_GasUsedAccumulates ==
    /\ gas_used = 0
    /\ [][gas_used' >= gas_used]_vars
    /\ [][CommitSucceeded => gas_used' = gas_used + pending[1].result.gas_used]_vars
    /\ [](alive # "aborted" => gas_used = SumGas(reported))

\* C1 witness: two commits that each reported gas have succeeded.
C1_Witness ==
    /\ ret.op = "commit" /\ ret.kind = "ok"
    /\ Len(reported) = 2
    /\ reported[1].gas_used > 0 /\ reported[2].gas_used > 0
    /\ gas_used = reported[1].gas_used + reported[2].gas_used

\* C2 as stated: gas_used never exceeds the block gas limit, for every
\* transaction kind and every fork.
C2_GasUsedWithinBlockLimit == gas_used <= block_gas_limit

\* A deposit was committed while Regolith was inactive.
ExemptDepositCommitted ==
    ~is_regolith /\ \E i \in 1..Len(reported) : reported[i].is_deposit

\* C2 amended: gas_used never exceeds the block gas limit as long as no
\* deposit has been committed while Regolith is inactive.
C2_GasUsedWithinBlockLimitWithoutExemptDeposit ==
    ~ExemptDepositCommitted => gas_used <= block_gas_limit

\* C2 witness: two admitted transactions, one of them a deposit under
\* Regolith, have filled the block exactly.
C2_Witness ==
    /\ ret.op = "commit" /\ ret.kind = "ok"
    /\ is_regolith
    /\ Len(reported) = 2
    /\ reported[1].is_deposit /\ ~reported[2].is_deposit
    /\ reported[2].gas_used > 0
    /\ gas_used = block_gas_limit

\* The transaction of the last execute call.
LastTx == ret.tx[1]

\* C3: execute_transaction_without_commit returns
\* TransactionGasLimitMoreThanAvailableBlockGas, carrying the gas limit and
\* block.gas_limit - gas_used, exactly when tx.gas_limit + gas_used exceeds
\* the block gas limit and the transaction is not a pre-Regolith deposit.
C3_GasAdmission ==
    ret.op = "execute" =>
        /\ (ret.kind = "TransactionGasLimitMoreThanAvailableBlockGas")
              <=> /\ LastTx.gas_limit + gas_used > block_gas_limit
                  /\ ~(LastTx.is_deposit /\ ~is_regolith)
        /\ (ret.kind = "TransactionGasLimitMoreThanAvailableBlockGas")
              => ret.err = Some(<<LastTx.gas_limit, block_gas_limit - gas_used>>)

\* The footprint the executor estimates for the transaction of the last
\* execute call, from the scalar the database holds.
LastTxFootprint == DaFootprintEstimation(ret.encoded, ScalarOfSlot(Storage(database)))

\* The last call was an execute of a non-deposit transaction under Jovian
\* whose scalar read did not fault and whose estimated footprint exceeds the
\* remaining budget.
FootprintAboveBudget ==
    /\ ret.op = "execute"
    /\ is_jovian_active
    /\ ~LastTx.is_deposit
    /\ ret.kind # "GetJovianDaFootprintScalar"
    /\ LastTxFootprint > block_gas_limit - da_footprint_used

\* The last call returned TransactionDaFootprintAboveGasLimit with the
\* transaction's footprint and the available footprint, without invoking the
\* interpreter.
RejectedForFootprint ==
    /\ ret.kind = "TransactionDaFootprintAboveGasLimit"
    /\ ret.err = Some(<<LastTxFootprint, block_gas_limit - da_footprint_used>>)
    /\ ~ret.transacted
    /\ pending = None

\* C4 as stated: under Jovian every non-deposit transaction whose estimated
\* footprint exceeds the remaining budget is rejected with
\* TransactionDaFootprintAboveGasLimit and the interpreter is not invoked.
C4_FootprintAboveBudgetRejected == FootprintAboveBudget => RejectedForFootprint

\* C4 amended: this holds of the transactions that pass the block-gas check
\* (tx.gas_limit + gas_used <= block.gas_limit), and the rejection leaves
\* receipts, gas_used, da_footprint_used and the cached state unchanged.
C4_FootprintAboveBudgetRejectedAfterGasCheck ==
    /\ [](FootprintAboveBudget /\ LastTx.gas_limit + gas_used <= block_gas_limit
            => RejectedForFootprint)
    /\ [][ret'.op = "execute" /\ ret'.kind = "TransactionDaFootprintAboveGasLimit"
            => UNCHANGED <<receipts, gas_used, da_footprint_used, cache, database>>]_vars

\* C4 witness: a transaction that would fit an empty block is rejected for
\* its footprint because of the footprint already used.
C4_Witness ==
    /\ FootprintAboveBudget
    /\ RejectedForFootprint
    /\ da_footprint_used > 0
    /\ LastTxFootprint <= block_gas_limit

\* C5 as stated: the estimated footprint is the size estimate divided by
\* 1_000_000, rounded up, times the scalar.
C5_EstimateRoundsUp ==
    ret.est # None =>
        ret.est[1][3] = ((ret.est[1][1] + SizeUnit - 1) \div SizeUnit) * ret.est[1][2]

\* C5 amended: the estimated footprint is the size estimate divided by
\* 1_000_000, rounded down, times the scalar.
C5_EstimateRoundsDown ==
    ret.est # None =>
        /\ ret.est[1][1] = ret.encoded
        /\ ret.est[1][2] = 256 * database.scalar_bytes[1] + database.scalar_bytes[2]
        /\ ret.est[1][3] = (ret.est[1][1] \div SizeUnit) * ret.est[1][2]

\* C5 witness: an estimate between one and two size units was given a
\* footprint of one scalar.
C5_Witness ==
    /\ ret.est # None
    /\ ret.est[1][1] > SizeUnit /\ ret.est[1][1] < 2 * SizeUnit
    /\ ret.est[1][2] > 0
    /\ ret.est[1][3] = ret.est[1][2]

\* C6: under Jovian da_footprint_used never exceeds the block gas limit.
C6_DaFootprintWithinBudget == is_jovian_active => da_footprint_used <= block_gas_limit

\* C6 witness: a deposit and a non-deposit have been committed and the
\* footprint budget is used up.
C6_Witness ==
    /\ is_jovian_active
    /\ ret.op = "commit" /\ ret.kind = "ok"
    /\ \E i, j \in 1..Len(reported) : reported[i].is_deposit /\ ~reported[j].is_deposit
    /\ da_footprint_used = block_gas_limit

\* C7: a successful commit advances da_footprint_used by the footprint
\* checked at admission when Jovian is active and the transaction is not a
\* deposit, and leaves it unchanged otherwise; before Jovian it stays 0.
C7_DaFootprintAdvance ==
    /\ [][CommitSucceeded =>
            da_footprint_used' = da_footprint_used +
                (IF is_jovian_active /\ ~pending[1].tx.is_deposit
                 THEN pending[1].da_footprint[1] ELSE 0)]_vars
    /\ [](~is_jovian_active => da_footprint_used = 0)

\* C7 witness: after a non-deposit that advanced the footprint, a deposit
\* has been committed under Jovian.
C7_Witness ==
    /\ is_jovian_active
    /\ ret.op = "commit" /\ ret.kind = "ok"
    /\ Len(reported) = 2
    /\ ~reported[1].is_deposit /\ reported[2].is_deposit
    /\ da_footprint_used > 0

\* The last call was a finish that returned a result.
FinishSucceeded == ret.op = "finish" /\ ret.kind = "ok"

C9_FinishOfEmptyBlock ==
    FinishSucceeded /\ reported = <<>> =>
        /\ cache.increments = 1
        /\ ret.hooks = <<[source |-> "PostBlock", index |-> 0]>>
        /\ ret.result[1].receipts = <<>>
        /\ ret.result[1].gas_used = 0

\* C9 witness: finish has succeeded on an executor that committed nothing.
C9_Witness ==
    /\ FinishSucceeded
    /\ reported = <<>>
    /\ receipts = <<>>
    /\ cache.commits = 0

\* C10: a successful commit returns the transaction's own gas, appends
\* exactly one receipt, and that receipt carries the new gas_used (the gas of
\* this and all earlier commits) and the result's success flag and logs.
C10_CommitReturnsOwnGasAndAppendsReceipt ==
    [][CommitSucceeded =>
         /\ ret'.gas = pending[1].result.gas_used
         /\ Len(receipts') = Len(receipts) + 1
         /\ SubSeq(receipts', 1, Len(receipts)) = receipts
         /\ receipts'[Len(receipts')].cumulative_gas_used = gas_used'
         /\ receipts'[Len(receipts')].cumulative_gas_used = SumGas(reported')
         /\ receipts'[Len(receipts')].status = pending[1].result.is_success
         /\ receipts'[Len(receipts')].logs = pending[1].result.logs]_vars

\* C10 witness: the second commit returned less than the running total.
C10_Witness ==
    /\ ret.op = "commit" /\ ret.kind = "ok"
    /\ Len(receipts) = 2
    /\ ret.gas > 0
    /\ ret.gas < gas_used
    /\ receipts[2].cumulative_gas_used = gas_used
    /\ receipts[1].status # receipts[2].status

\* C11: the receipt of a committed deposit carries deposit_nonce exactly when
\* Regolith is active, equal to the depositor's nonce before the commit, and
\* deposit_receipt_version 1 exactly when Canyon is active; the depositor
\* account is loaded only for deposits under Regolith.
C11_DepositReceiptFields ==
    /\ [][CommitSucceeded /\ pending[1].tx.is_deposit =>
            LET r == receipts'[Len(receipts')]
            IN  /\ r.deposit_nonce = (IF is_regolith THEN <<cache.nonce>> ELSE <<>>)
                /\ r.deposit_receipt_version = (IF is_canyon_active THEN <<1>> ELSE <<>>)]_vars
    /\ [][ret'.op = "commit" /\ pending # None =>
            ret'.account_loads = (IF is_regolith /\ pending[1].tx.is_deposit THEN 1 ELSE 0)]_vars

\* C11 witness: under Regolith without Canyon the second transaction, a
\* deposit, got the nonce left by the first commit and no version marker.
C11_Witness ==
    /\ fork = "REGOLITH"
    /\ ret.op = "commit" /\ ret.kind = "ok" /\ ret.account_loads = 1
    /\ Len(receipts) = 2
    /\ reported[2].is_deposit
    /\ receipts[2].deposit_nonce = <<1>>
    /\ receipts[2].deposit_receipt_version = <<>>

\* apply_pre_execution_changes has completed on the executor.
PreExecuted == cache.system_calls = SystemCallsAmong(Len(PreExecutionSteps))

\* C12 as stated: no transaction is executed or committed before
\* apply_pre_execution_changes has completed, and nothing happens on the
\* executor once finish has been called.
C12_PhasesInOrder ==
    /\ []((ret.op = "execute" /\ ret.transacted) \/ ret.op = "commit" => PreExecuted)
    /\ [][ret.op = "finish" => UNCHANGED vars]_vars

\* C12 amended: finish is terminal, whatever it returns: no pre-execution,
\* execute, commit or finish happens on the executor afterwards.  (The order
\* of the earlier phases is the caller's to keep.)
C12_FinishedIsTerminal ==
    [][ret.op = "finish" => UNCHANGED vars]_vars

\* C12 witness: finish has been called on an executor that went through
\* pre-execution and two commits.
C12_Witness ==
    /\ ret.op = "finish"
    /\ alive = "finished"
    /\ PreExecuted
    /\ Len(receipts) = 2

\* C13: no call writes to the backing database; the state deltas of the
\* system calls and of the committed transactions are in the cache only.
C13_BackingDatabaseNeverWritten ==
    /\ [][database' = database]_vars
    /\ [](database.writes = 0)

\* C13 witness: pre-execution and two commits have changed the cache, and the
\* executor has not been finished.
C13_Witness ==
    /\ alive = "live"
    /\ ret.op = "commit" /\ ret.kind = "ok"
    /\ PreExecuted
    /\ cache.commits = 2
    /\ database.writes = 0

\* C14: when the interpreter fails a transaction the call returns an error
\* with the transaction's hash, holds no result to commit, and leaves
\* gas_used, da_footprint_used, the receipts, the cache and the database as
\* they were and the executor usable.
C14_EvmErrorLeavesExecutorUnchanged ==
    [][ret'.op = "execute" /\ ret'.kind = "Evm" =>
         /\ UNCHANGED <<gas_used, da_footprint_used, receipts, reported, cache, database,
                        fork, block_gas_limit>>
         /\ ret'.err = <<TrieHash(ret'.tx[1])>>
         /\ ret'.transacted
         /\ pending' = <<>>
         /\ alive' = "live"]_vars

\* C14 witness: the interpreter failed the second transaction of a block,
\* after its footprint had been admitted.
C14_Witness ==
    /\ ret.op = "execute" /\ ret.kind = "Evm"
    /\ ret.est # <<>>
    /\ Len(receipts) = 1
    /\ gas_used > 0
    /\ alive = "live"

\* The indexes of the forks of a sequence that pass the activation test the
\* resolver applies to them at a header.
ActiveForks(forks, by_timestamp, chain_spec, timestamp, block_number) ==
    {i \in 1..Len(forks) :
        IF forks[i] \in by_timestamp
        THEN chain_spec[forks[i]].kind = "Timestamp" /\ chain_spec[forks[i]].at <= timestamp
        ELSE chain_spec[forks[i]].kind = "Block" /\ chain_spec[forks[i]].at <= block_number}

\* The version of the newest fork among the indexes active, or genesis.
NewestOf(active, spec_ids, genesis) ==
    IF active = {} THEN genesis
    ELSE spec_ids[CHOOSE i \in active : \A j \in active : j <= i]

\* C15: both resolvers return the version of the newest fork whose
\* activation predicate holds (timestamp-gated forks above block-gated ones,
\* in the order of the fork lists) and the genesis version when none holds;
\* a rule set that activates exactly one fork resolves to that fork.
C15_NewestActiveForkWins ==
    /\ call.fn = "spec_by_timestamp_and_block_number" =>
          call.out = NewestOf(ActiveForks(EthForks, EthTimestampForks, call.chain_spec,
                                          call.timestamp, call.block_number),
                              EthSpecIds, "FRONTIER")
    /\ call.fn = "spec_by_timestamp_after_bedrock" =>
          call.out = NewestOf(ActiveForks(OpForks, Names(OpForks), call.chain_spec,
                                          call.timestamp, 0),
                              OpSpecIds, "BEDROCK")
    /\ call.fn \in {"spec_by_timestamp_and_block_number", "spec_by_timestamp_after_bedrock"} =>
          LET forks == IF call.fn = "spec_by_timestamp_after_bedrock" THEN OpForks ELSE EthForks
              ids == IF call.fn = "spec_by_timestamp_after_bedrock" THEN OpSpecIds ELSE EthSpecIds
          IN  \A i \in 1..Len(forks) :
                (\A j \in 1..Len(forks) :
                    call.chain_spec[forks[j]].kind = (IF j = i THEN call.chain_spec[forks[i]].kind
                                                     ELSE "Never"))
                /\ call.chain_spec[forks[i]].kind # "Never"
                /\ call.chain_spec[forks[i]].at = 0
                => call.out = ids[i]

\* C15 witness: on a chain that activates Prague and Shanghai but not Cancun
\* the resolver has answered PRAGUE.
C15_Witness ==
    /\ call.fn = "spec_by_timestamp_and_block_number"
    /\ ActiveForks(EthForks, EthTimestampForks, call.chain_spec,
                   call.timestamp, call.block_number) = {10, 12}
    /\ call.out = "PRAGUE"

\* The activation point of a condition; a fork never activated lies beyond
\* every point.
PointOf(cond) == IF cond.kind = "Never" THEN MaxPoint + 2 ELSE cond.at

\* The activation points of the chain rules do not decrease from a fork to
\* the next newer one.
Monotonic(forks, chain_spec) ==
    \A i, j \in 1..Len(forks) :
        i < j => PointOf(chain_spec[forks[i]]) <= PointOf(chain_spec[forks[j]])

\* What C16 says of a resolver call c over the fork list forks (versions
\* ids, genesis version genesis, forks of by_timestamp gated by timestamp).
\* A block-gated fork is looked at on headers whose timestamp is before every
\* timestamp-gated fork.  With strict, a boundary counts only when no newer
\* fork shares the activation point, the preceding fork is active one unit
\* earlier, and genesis only when no fork is activated at 0.
BoundaryRule(forks, ids, genesis, by_timestamp, c, strict) ==
    LET point(i) == PointOf(c.chain_spec[forks[i]])
        at(i) == IF forks[i] \in by_timestamp THEN c.timestamp ELSE c.block_number
        applicable(i) ==
            \/ forks[i] \in by_timestamp
            \/ \A j \in 1..Len(forks) : forks[j] \in by_timestamp => point(j) > c.timestamp
    IN  Monotonic(forks, c.chain_spec) =>
        /\ \A i \in 1..Len(forks) :
              /\ applicable(i)
              /\ point(i) = at(i)
              /\ (strict => i = Len(forks) \/ point(i + 1) > point(i))
              => c.out = ids[i]
        /\ \A i \in 1..Len(forks) :
              /\ applicable(i)
              /\ point(i) = at(i) + 1
              /\ (strict => i = 1 \/ point(i - 1) <= at(i - 1))
              => c.out = (IF i = 1 THEN genesis ELSE ids[i - 1])
        /\ /\ c.timestamp = 0
           /\ c.block_number = 0
           /\ (strict => \A i \in 1..Len(forks) : point(i) > 0)
           => c.out = genesis

\* The resolver call as BoundaryRule reads it (the rollup resolver takes no
\* block number).
ResolverCall ==
    IF call.fn = "spec_by_timestamp_after_bedrock"
    THEN [chain_spec |-> call.chain_spec, timestamp |-> call.timestamp,
          block_number |-> 0, out |-> call.out]
    ELSE call

\* C16 as stated: on a monotonic schedule, resolving at a fork's activation
\* point returns that fork, one unit earlier the preceding fork, and at the
\* genesis parameters the genesis version.
C16_InclusiveAtActivationPoint ==
    /\ call.fn = "spec_by_timestamp_and_block_number" =>
          BoundaryRule(EthForks, EthSpecIds, "FRONTIER", EthTimestampForks, ResolverCall, FALSE)
    /\ call.fn = "spec_by_timestamp_after_bedrock" =>
          BoundaryRule(OpForks, OpSpecIds, "BEDROCK", Names(OpForks), ResolverCall, FALSE)

\* C16 amended: the same, for an activation point no newer fork shares, with
\* the preceding fork active one unit earlier, and at the genesis parameters
\* only when no fork is activated at 0.
C16_InclusiveAtStrictActivationPoint ==
    /\ call.fn = "spec_by_timestamp_and_block_number" =>
          BoundaryRule(EthForks, EthSpecIds, "FRONTIER", EthTimestampForks, ResolverCall, TRUE)
    /\ call.fn = "spec_by_timestamp_after_bedrock" =>
          BoundaryRule(OpForks, OpSpecIds, "BEDROCK", Names(OpForks), ResolverCall, TRUE)

\* C16 witness: Canyon activates at timestamp 1 after Regolith at 0 and
\* before Ecotone, and the rollup resolver has answered CANYON at timestamp 1.
C16_Witness ==
    /\ call.fn = "spec_by_timestamp_after_bedrock"
    /\ Monotonic(OpForks, call.chain_spec)
    /\ call.chain_spec["Regolith"] = Timestamp(0)
    /\ call.chain_spec["Canyon"] = Timestamp(1)
    /\ PointOf(call.chain_spec["Ecotone"]) > 1
    /\ call.timestamp = 1
    /\ call.out = "CANYON"

\* The calls that build an environment for Ethereum.
EthEnvCalls == {"for_eth_block", "for_eth_next_block"}

C18_ForEthBlockFields ==
    call.fn = "for_eth_block" =>
        LET header == call.header
            block_env == call.out.block_env
        IN  /\ block_env.number = header.number
            /\ block_env.timestamp = header.timestamp
            /\ block_env.beneficiary = header.beneficiary
            /\ block_env.gas_limit = header.gas_limit
            /\ block_env.basefee =
                  (IF header.base_fee_per_gas = None THEN 0 ELSE header.base_fee_per_gas[1])
            /\ IF ActiveAtBlock(call.chain_spec["Paris"], header.number)
               THEN block_env.difficulty = 0 /\ block_env.prevrandao = header.mix_hash
               ELSE block_env.difficulty = header.difficulty /\ block_env.prevrandao = None
            /\ block_env.blob_excess_gas_and_price # None
                  <=> (header.excess_blob_gas # None /\ call.blob_params # None)

\* C18 witness: for_eth_block on a header before Paris, without base fee and
\* with excess blob gas, with blob parameters: the header's difficulty, no
\* prevrandao, base fee 0 and a blob excess gas and price.
C18_Witness ==
    /\ call.fn = "for_eth_block"
    /\ call.chain_spec["Paris"] = Block(1)
    /\ call.header.number = 0
    /\ call.header.base_fee_per_gas = None
    /\ call.header.excess_blob_gas # None
    /\ call.blob_params # None
    /\ call.out.block_env.difficulty = call.header.difficulty
    /\ call.out.block_env.difficulty # 0
    /\ call.out.block_env.prevrandao = None
    /\ call.out.block_env.basefee = 0
    /\ call.out.block_env.blob_excess_gas_and_price # None

\* C19: for_eth_next_block carries a blob excess gas and price whenever the
\* resolved spec is Cancun or later: the excess is the update formula of the
\* parent's excess blob gas, blob gas used and the supplied base fee when blob
\* parameters are configured and the parent has both fields, and 0 otherwise;
\* before Cancun it is absent.
C19_NextBlockBlobExcess ==
    call.fn = "for_eth_next_block" =>
        LET header == call.header
            blob == call.out.block_env.blob_excess_gas_and_price
            formula_applies ==
                /\ call.blob_params # None
                /\ header.excess_blob_gas # None
                /\ header.blob_gas_used # None
        IN  IF EthSpecRank(call.out.cfg_env.spec) >= EthSpecRank("CANCUN")
            THEN /\ blob # None
                 /\ IF formula_applies
                    THEN blob[1].excess_blob_gas =
                            NextBlockExcessBlobGasOsaka(
                                call.blob_params[1], header.excess_blob_gas[1],
                                header.blob_gas_used[1], call.base_fee_per_gas)
                    ELSE blob[1].excess_blob_gas = 0
            ELSE blob = None

\* The calls that adapt a request, and the TxEnv of a successful one.
TxEnvCalls == {"try_into_tx_env", "op_try_into_tx_env"}
AdaptedTxEnv == IF call.fn = "op_try_into_tx_env" THEN call.out.value.base ELSE call.out.value

\* C20: a transaction returned by try_into_tx_env has gas_price >=
\* gas_priority_fee; an explicit legacy gas price is both price and priority
\* fee; fee-market fields with max_fee_per_gas < max_priority_fee_per_gas give
\* an error; a legacy gas price of 0 against base fee 0 of a well-formed
\* request gives price 0 and priority fee 0 without error.
C20_PriceCoversPriorityFee ==
    call.fn \in TxEnvCalls =>
        LET request == call.request
            ok == call.out.kind = "Ok"
            well_formed ==
                /\ request.blob_versioned_hashes # Some(<<>>)
                /\ TryIntoUniqueInput(request.input).kind = "Ok"
        IN  /\ ok /\ AdaptedTxEnv.gas_priority_fee # None =>
                  AdaptedTxEnv.gas_price >= AdaptedTxEnv.gas_priority_fee[1]
            /\ ok /\ request.gas_price # None =>
                  /\ AdaptedTxEnv.gas_price = request.gas_price[1]
                  /\ AdaptedTxEnv.gas_priority_fee = request.gas_price
            /\ /\ request.gas_price = None
               /\ request.max_fee_per_gas # None
               /\ request.max_priority_fee_per_gas # None
               /\ request.max_fee_per_gas[1] < request.max_priority_fee_per_gas[1]
               => ~ok
            /\ well_formed /\ request.gas_price = Some(0) /\ call.evm_env.block_env.basefee = 0 =>
                  /\ ok
                  /\ AdaptedTxEnv.gas_price = 0
                  /\ AdaptedTxEnv.gas_priority_fee = Some(0)

\* C20 witness: fee-market fields with the fee cap above the priority fee
\* have been adapted to a transaction with these two fees.
C20_Witness ==
    /\ call.fn = "try_into_tx_env"
    /\ call.request.gas_price = None
    /\ call.request.max_fee_per_gas = Some(2)
    /\ call.request.max_priority_fee_per_gas = Some(1)
    /\ call.out.kind = "Ok"
    /\ call.out.value.gas_price = 2
    /\ call.out.value.gas_priority_fee = Some(1)

\* The blob-versioned-hash list of the adapted request is present but empty;
\* its data and input are both set, to different values.
EmptyBlobHashes == call.request.blob_versioned_hashes = Some(<<>>)
InputConflict ==
    /\ call.request.input.input # None
    /\ call.request.input.data # None
    /\ call.request.input.input # call.request.input.data

\* The outcome of the fee reconciliation of the adapted request.
ReconciledFees ==
    EnsureFees(call.request.gas_price, call.request.max_fee_per_gas,
               call.request.max_priority_fee_per_gas, call.evm_env.block_env.basefee,
               call.request.max_fee_per_blob_gas, BlobGasprice(call.evm_env.block_env))

\* C21 as stated: a request with a present but empty blob-hash list fails
\* with BlobTransactionMissingBlobHashes, and a request whose data and input
\* differ fails with an Input error.
C21_MalformedRequestErrors ==
    call.fn \in TxEnvCalls =>
        /\ EmptyBlobHashes =>
              call.out = Err(<<"CallFees", "BlobTransactionMissingBlobHashes">>)
        /\ InputConflict => call.out.kind = "Err" /\ call.out.error[1] = "Input"

\* C21 amended: a malformed request never gives a transaction; the empty
\* blob-hash list is reported first, then a failure of the fee
\* reconciliation, and the Input error of differing data and input only when
\* neither of these has failed.
C21_MalformedRequestErrorsInOrder ==
    call.fn \in TxEnvCalls =>
        /\ EmptyBlobHashes \/ InputConflict => call.out.kind = "Err"
        /\ EmptyBlobHashes =>
              call.out = Err(<<"CallFees", "BlobTransactionMissingBlobHashes">>)
        /\ InputConflict /\ ~EmptyBlobHashes =>
              IF ReconciledFees.kind = "Err"
              THEN call.out = ReconciledFees
              ELSE call.out.kind = "Err" /\ call.out.error[1] = "Input"

\* C21 witness: a request with differing data and input, a blob-hash list
\* that is not empty and fees that reconcile has failed with the Input error.
C21_Witness ==
    /\ call.fn = "try_into_tx_env"
    /\ InputConflict
    /\ call.request.blob_versioned_hashes # None
    /\ ~EmptyBlobHashes
    /\ ReconciledFees.kind = "Ok"
    /\ call.out.kind = "Err"
    /\ call.out.error[1] = "Input"

\* C22: try_into_tx_env fills an omitted gas limit with the gas limit of the
\* block, chain id with the chain id of the environment, caller with the zero
\* address, nonce with 0 and kind with Create, and uses a field that is
\* present unchanged; the rollup adapter attaches an empty enveloped encoding
\* and default deposit metadata.
C22_DefaultsForOmittedFields ==
    call.fn \in TxEnvCalls /\ call.out.kind = "Ok" =>
        LET request == call.request
            tx == AdaptedTxEnv
        IN  /\ tx.gas_limit = (IF request.gas = None THEN call.evm_env.block_env.gas_limit
                                ELSE request.gas[1])
            /\ tx.chain_id = (IF request.chain_id = None
                               THEN Some(call.evm_env.cfg_env.chain_id)
                               ELSE request.chain_id)
            /\ tx.caller = (IF request.from = None THEN "0x0" ELSE request.from[1])
            /\ tx.nonce = (IF request.nonce = None THEN 0 ELSE request.nonce[1])
            /\ tx.kind = (IF request.to = None THEN <<"Create">> ELSE request.to[1])
            /\ request.value # None => tx.value = request.value[1]
            /\ request.access_list # None => tx.access_list = request.access_list[1]
            /\ request.blob_versioned_hashes # None =>
                  tx.blob_hashes = request.blob_versioned_hashes[1]
            /\ call.fn = "op_try_into_tx_env" =>
                  /\ call.out.value.enveloped_tx = Some(<<>>)
                  /\ call.out.value.deposit = "default"

\* C22 witness: the rollup adapter has adapted a request that sets only the
\* nonce: the gas limit and chain id of the environment, the zero caller,
\* Create, the nonce of the request and an empty enveloped encoding.
C22_Witness ==
    /\ call.fn = "op_try_into_tx_env"
    /\ call.request.gas = None
    /\ call.request.chain_id = None
    /\ call.request.from = None
    /\ call.request.to = None
    /\ call.request.nonce = Some(1)
    /\ call.out.kind = "Ok"
    /\ call.out.value.base.gas_limit = call.evm_env.block_env.gas_limit
    /\ call.out.value.base.nonce = 1
    /\ call.out.value.base.kind = <<"Create">>
    /\ call.out.value.enveloped_tx = Some(<<>>)

\* The reason of the InvalidTransaction under a classified error, if it has
\* one: the error itself, the base of a rollup transaction error, or either
\* inside the Transaction variant of an EVM error.
UnderlyingReason ==
    LET tx_err == IF call.error.type = "EVMError"
                  THEN (IF call.error.variant = "Transaction" THEN Some(call.error.err) ELSE None)
                  ELSE Some(call.error)
    IN  IF tx_err = None THEN None
        ELSE IF tx_err[1].type = "InvalidTransaction" THEN Some(tx_err[1].reason)
        ELSE IF tx_err[1].variant = "Base" THEN Some(tx_err[1].base.reason)
        ELSE None

\* C23: at most one of the three predicates holds of an error; each holds
\* exactly when the underlying InvalidTransaction reason is in its set; none
\* holds of an error without an underlying InvalidTransaction.
C23_PredicatesAreViewsOfOneReason ==
    call.fn = "classify" =>
        LET reason == UnderlyingReason
            out == call.out
        IN  /\ ~(out.is_nonce_too_low /\ out.is_gas_limit_too_high)
            /\ ~(out.is_nonce_too_low /\ out.is_gas_limit_too_low)
            /\ ~(out.is_gas_limit_too_high /\ out.is_gas_limit_too_low)
            /\ out.is_nonce_too_low <=> reason = Some("NonceTooLow")
            /\ out.is_gas_limit_too_high <=>
                  reason \in {Some("TxGasLimitGreaterThanCap"), Some("CallerGasLimitMoreThanBlock")}
            /\ out.is_gas_limit_too_low <=>
                  reason \in {Some("CallGasCostMoreThanGasLimit"), Some("GasFloorMoreThanGasLimit")}
            /\ reason = None =>
                  ~out.is_nonce_too_low /\ ~out.is_gas_limit_too_high /\ ~out.is_gas_limit_too_low

\* C23 witness: an EVM error whose Transaction variant holds a rollup
\* transaction error with base GasFloorMoreThanGasLimit has been classified
\* as a gas limit that is too low.
C23_Witness ==
    /\ call.fn = "classify"
    /\ call.error.type = "EVMError"
    /\ call.error.variant = "Transaction"
    /\ call.error.err.type = "OpTransactionError"
    /\ UnderlyingReason = Some("GasFloorMoreThanGasLimit")
    /\ call.out.is_gas_limit_too_low
    /\ ~call.out.is_gas_limit_too_high

\* C24: apply_pre_execution_changes runs its steps in the fixed order, the
\* state-clearing flag being what the chain rules say of Spurious Dragon at
\* the block number; the first step that fails ends the call with its error
\* and the later steps do not run; gas_used, da_footprint_used and the
\* receipts are not touched.
C24_PreExecutionStepsInOrder ==
    [][ret'.op = "pre" =>
          LET ran == Len(ret'.steps)
          IN  /\ ran >= 1
              /\ ret'.steps = SubSeq(PreExecutionSteps, 1, ran)
              /\ ret'.state_clear_flag = ret'.spurious_dragon
              /\ ret'.state_clear_flag # None
              /\ IF ret'.kind = "ok"
                 THEN ran = Len(PreExecutionSteps)
                 ELSE ran < Len(PreExecutionSteps) /\ ret'.kind = PreExecutionSteps[ran + 1]
              /\ cache'.system_calls >= SystemCallsAmong(ran)
              /\ cache'.system_calls = cache.system_calls
                    \/ cache'.system_calls = SystemCallsAmong(ran)
              /\ UNCHANGED <<gas_used, da_footprint_used, receipts>>]_vars

\* C24 witness: the beacon-root system call has failed after the flag was
\* set and the block-hash call made, on an executor that has committed a
\* transaction.
C24_Witness ==
    /\ ret.op = "pre"
    /\ ret.kind = "apply_beacon_root_contract_call"
    /\ ret.steps = <<"set_state_clear_flag", "apply_blockhashes_contract_call">>
    /\ ret.state_clear_flag = Some(TRUE)
    /\ cache.system_calls = 1
    /\ Len(receipts) = 1

\* C25 as stated: for a transaction that is executed and then committed the
\* scalar slot is read at most once, and not at all for a deposit or when
\* Jovian is not active.
C25_ScalarReadAtMostOncePerTransaction ==
    [][ret'.op = "commit" /\ ret'.kind = "ok" =>
          LET reads == ret.scalar_reads + ret'.scalar_reads
          IN  /\ reads <= 1
              /\ pending[1].tx.is_deposit \/ ~is_jovian_active => reads = 0]_vars

\* C25 amended: each call of execute_transaction_without_commit and of
\* commit_transaction reads the scalar slot at most once and not at all for a
\* deposit or when Jovian is not active; a transaction footprint is tracked
\* for, executed and then committed, has the slot read twice, once by each
\* call.
C25_ScalarReadAtMostOncePerCall ==
    [][/\ ret'.op = "execute" =>
             /\ ret'.scalar_reads <= 1
             /\ ret'.tx[1].is_deposit \/ ~is_jovian_active => ret'.scalar_reads = 0
       /\ ret'.op = "commit" =>
             /\ ret'.scalar_reads <= 1
             /\ pending[1].tx.is_deposit \/ ~is_jovian_active =>
                   ret.scalar_reads + ret'.scalar_reads = 0
             /\ ~pending[1].tx.is_deposit /\ is_jovian_active /\ ret'.kind = "ok" =>
                   ret.scalar_reads = 1 /\ ret'.scalar_reads = 1]_vars

\* C25 witness: under Jovian a transaction that is no deposit has been
\* committed, its commit having read the scalar slot.
C25_Witness ==
    /\ is_jovian_active
    /\ ret.op = "commit"
    /\ ret.kind = "ok"
    /\ ret.scalar_reads = 1
    /\ Len(reported) = 1
    /\ ~reported[1].is_deposit

\* C26: whenever commit_transaction returns an error, gas_used,
\* da_footprint_used, the receipts and the cached state are as they were
\* before the call.
C26_FailedCommitChangesNothing ==
    [][ret'.op = "commit" /\ ret'.kind \in {"LoadCacheAccount", "GetJovianDaFootprintScalar"} =>
          UNCHANGED <<gas_used, da_footprint_used, receipts, cache>>]_vars

\* C27: the subtractions block.gas_limit - gas_used and block.gas_limit -
\* da_footprint_used of execute_transaction_without_commit never underflow.
C27_SubtractionsNeverUnderflow ==
    [][ret'.op = "execute" => ~ExecuteOverflows(ret'.tx[1])]_vars

FailsGasCheck == GasCheckRejects(ret.tx[1])

\* The DA footprint check of the last execute_transaction_without_commit, as
\* the code would evaluate it on the transaction's bytes.
FailsDaCheck ==
    /\ TracksDaFootprint(ret.tx[1])
    /\ DaCheckRejects(DaFootprintEstimation(ret.encoded, ScalarOfSlot(Storage(database))),
                      WrappingSub(block_gas_limit, da_footprint_used))

\* C29: execute_transaction_without_commit checks the block gas first, then
\* the DA footprint, then calls the interpreter: a transaction that fails the
\* gas check gets the gas-limit error (also when it fails the DA check too)
\* with no scalar read and no interpreter call, the DA error is only given to
\* a transaction that passed the gas check, and the interpreter only runs for
\* a transaction that passed both.  (A call that panics in a subtraction has
\* evaluated no check.)
C29_GasCheckThenDaCheckThenInterpreter ==
    ret.op = "execute" /\ ret.kind # "panic" =>
        /\ FailsGasCheck =>
              /\ ret.kind = "TransactionGasLimitMoreThanAvailableBlockGas"
              /\ ret.scalar_reads = 0
              /\ ~ret.transacted
        /\ ret.kind = "TransactionDaFootprintAboveGasLimit" =>
              /\ ~FailsGasCheck /\ FailsDaCheck
              /\ ret.scalar_reads = 1
              /\ ~ret.transacted
        /\ ret.scalar_reads > 0 => ~FailsGasCheck
        /\ ret.transacted => ~FailsGasCheck /\ ~FailsDaCheck

\* C29 witness: a transaction that fails both checks has been given the
\* gas-limit error.
C29_Witness ==
    /\ ret.op = "execute"
    /\ FailsGasCheck /\ FailsDaCheck
    /\ ret.kind = "TransactionGasLimitMoreThanAvailableBlockGas"
    /\ ret.scalar_reads = 0 /\ ~ret.transacted

\* C30: for every header and every chain rule set, the environment of
\* for_eth_block agrees with itself about the merge: with a spec of MERGE or
\* later its difficulty is 0 and its prevrandao the header's mix hash, and
\* with an earlier spec its prevrandao is absent and its difficulty the
\* header's.
C30_MergeFieldsAgreeWithSpec ==
    call.fn = "for_eth_block" =>
        LET header == call.header
            block_env == call.out.block_env
        IN  IF EthSpecRank(call.out.cfg_env.spec) >= EthSpecRank("MERGE")
            THEN block_env.difficulty = 0 /\ block_env.prevrandao = header.mix_hash
            ELSE block_env.prevrandao = None /\ block_env.difficulty = header.difficulty

====
